---- MODULE Spec2Model ----
(***************************************************************************)
(* Todo synchronisation of Claude Pilot: TodoParser (pure), TodoWatcher    *)
(* (directory and per-file watches, stat callbacks) and TodoManager        *)
(* (cache, debounce timers, change events), as one state machine whose     *)
(* steps are the ticks of the node event loop and the writes and deletes   *)
(* other processes make in the todos directory.                            *)
(***************************************************************************)
EXTENDS Integers, Sequences, FiniteSets, TLC

(***************************************************************************)
(* Strings the code inspects character by character are sequences of       *)
(* one-character strings.                                                  *)
(***************************************************************************)
HexClass == {"a", "b", "c", "d", "e", "f", "0", "1", "2", "3", "4", "5", "6",
             "7", "8", "9", "-"}

\* String.prototype.toLowerCase, on the letters the model's strings use
LowerChar(c) ==
    CASE c = "A" -> "a" [] c = "B" -> "b" [] c = "C" -> "c" [] c = "D" -> "d"
      [] c = "E" -> "e" [] c = "F" -> "f" [] c = "G" -> "g" [] c = "H" -> "h"
      [] c = "I" -> "i" [] c = "L" -> "l" [] c = "N" -> "n" [] c = "O" -> "o"
      [] c = "P" -> "p" [] c = "R" -> "r" [] c = "S" -> "s" [] c = "T" -> "t"
      [] c = "U" -> "u" [] c = "V" -> "v" [] OTHER -> c

toLowerCase(s) == [i \in 1..Len(s) |-> LowerChar(s[i])]

\* s.includes(sub)
includes(s, sub) ==
    \E i \in 1..(Len(s) - Len(sub) + 1) : SubSeq(s, i, i + Len(sub) - 1) = sub

\* s.endsWith(suffix)
endsWith(s, suffix) ==
    /\ Len(s) >= Len(suffix)
    /\ SubSeq(s, Len(s) - Len(suffix) + 1, Len(s)) = suffix

DotJson == <<".", "j", "s", "o", "n">>

NoMatch == <<>>

(***************************************************************************)
(* filename.match(/<prefix>([a-f0-9-]+)<suffix>$/i): the capture group of  *)
(* the leftmost match, NoMatch when there is none.  The group is what lies *)
(* between the prefix and the suffix that ends the name.                   *)
(***************************************************************************)
MatchGroup(name, prefix, suffix) ==
    LET n == Len(name)
        low == toLowerCase(name)
        GroupAt(i) == SubSeq(low, i + Len(prefix), n - Len(suffix))
        Ok(i) == /\ i + Len(prefix) <= n - Len(suffix)
                 /\ SubSeq(low, i, i + Len(prefix) - 1) = prefix
                 /\ endsWith(low, suffix)
                 /\ \A k \in 1..Len(GroupAt(i)) : GroupAt(i)[k] \in HexClass
        starts == {i \in 1..n : Ok(i)}
    IN  IF starts = {} THEN NoMatch
        ELSE LET i == CHOOSE j \in starts : \A k \in starts : j <= k
             IN  SubSeq(name, i + Len(prefix), n - Len(suffix))

\* The ordered patterns of extractSessionId: <<prefix, suffix>> around the group
Patterns ==
    << << <<"t", "o", "d", "o", "s", "-">>, DotJson >>,
       << <<>>, <<"-", "t", "o", "d", "o", "s">> \o DotJson >>,
       << <<"t", "o", "d", "o", "s", "_">>, DotJson >>,
       << <<>>, DotJson >> >>

\* TodoParser.extractSessionId: first pattern that matches wins, else null
extractSessionId(name) ==
    LET hits == {k \in 1..Len(Patterns) :
                    MatchGroup(name, Patterns[k][1], Patterns[k][2]) # NoMatch}
    IN  IF hits = {} THEN NoMatch
        ELSE LET k == CHOOSE j \in hits : \A h \in hits : j <= h
             IN  MatchGroup(name, Patterns[k][1], Patterns[k][2])

\* TodoWatcher.isSessionTodoFile
isSessionTodoFile(filename, sessionId) ==
    includes(filename, sessionId) /\ endsWith(filename, DotJson)

(***************************************************************************)
(* JSON values, as JSON.parse returns them.  Every value is a record       *)
(* [t, v]: t is the type tag, v the payload (a sequence of characters for  *)
(* a string, a sequence of values for an array, a function from field      *)
(* names to values for an object).                                         *)
(***************************************************************************)
JNull == [t |-> "null", v |-> 0]
Undefined == [t |-> "undefined", v |-> 0]
JStr(chars) == [t |-> "str", v |-> chars]
JNum(n) == [t |-> "num", v |-> n]
JArr(items) == [t |-> "arr", v |-> items]
JObj(fields) == [t |-> "obj", v |-> fields]

\* item.<name>: undefined when the object has no such field
Get(x, name) ==
    IF x.t = "obj" /\ name \in DOMAIN x.v THEN x.v[name] ELSE Undefined

\* JavaScript truthiness of a JSON value
Truthy(x) ==
    CASE x.t = "undefined" -> FALSE
      [] x.t = "null" -> FALSE
      [] x.t = "str" -> x.v # <<>>
      [] x.t = "num" -> x.v # 0
      [] OTHER -> TRUE

\* a.f1 || a.f2 || ... || dflt, over the fields named in the sequence names
RECURSIVE FirstTruthy(_, _, _)
FirstTruthy(x, names, dflt) ==
    IF names = <<>> THEN dflt
    ELSE IF Truthy(Get(x, Head(names))) THEN Get(x, Head(names))
    ELSE FirstTruthy(x, Tail(names), dflt)

DigitChars == <<"0", "1", "2", "3", "4", "5", "6", "7", "8", "9">>

\* String(n) for the one-digit numbers the model uses
StringOfNat(n) == <<DigitChars[n + 1]>>

\* String(v) of a string or a number
StringOf(x) == IF x.t = "num" THEN StringOfNat(x.v) ELSE x.v

Progress == <<"p", "r", "o", "g", "r", "e", "s", "s">>
Active == <<"a", "c", "t", "i", "v", "e">>
Complete == <<"c", "o", "m", "p", "l", "e", "t", "e">>
Done == <<"d", "o", "n", "e">>
Finish == <<"f", "i", "n", "i", "s", "h">>
High == <<"h", "i", "g", "h">>
Urgent == <<"u", "r", "g", "e", "n", "t">>
Low == <<"l", "o", "w">>

\* a status inference that lets the word of a finished item through
StatusOfUnnormalised(rawStatus) ==
    IF includes(rawStatus, Progress) \/ includes(rawStatus, Active)
    THEN "in_progress"
    ELSE IF includes(rawStatus, Complete) THEN "complete"
    ELSE IF includes(rawStatus, Done) THEN "done"
    ELSE IF includes(rawStatus, Finish) THEN "finish"
    ELSE "pending"

\* the status parseTodoItem infers from the lower-cased raw status
StatusOf(rawStatus) ==
    IF includes(rawStatus, Progress) \/ includes(rawStatus, Active)
    THEN "in_progress"
    ELSE IF \/ includes(rawStatus, Complete)
            \/ includes(rawStatus, Done)
            \/ includes(rawStatus, Finish)
    THEN "completed"
    ELSE "pending"

\* the priority parseTodoItem infers from the lower-cased raw priority
PriorityOf(rawPriority) ==
    IF \/ includes(rawPriority, High)
       \/ includes(rawPriority, Urgent)
       \/ rawPriority = <<"3">>
    THEN "high"
    ELSE IF includes(rawPriority, Low) \/ rawPriority = <<"1">>
    THEN "low"
    ELSE "medium"

defaultTodo(index) ==
    [id |-> StringOfNat(index), content |-> JStr(<<>>), status |-> "pending",
     priority |-> "medium"]

\* (item.status || item.state || '').toLowerCase() and its priority twin throw
\* a TypeError when the chosen value is not a string
ItemThrows(item) ==
    /\ item.t \in {"obj", "arr"}
    /\ \/ FirstTruthy(item, <<"status", "state">>, JStr(<<>>)).t # "str"
       \/ FirstTruthy(item, <<"priority", "importance">>, JStr(<<>>)).t # "str"

\* a parseTodoItem that reads the content field only
parseTodoItemContentOnly(item, index) ==
    IF item.t = "str" THEN [defaultTodo(index) EXCEPT !.content = item]
    ELSE IF item.t \notin {"obj", "arr"} THEN defaultTodo(index)
    ELSE
      [id |-> StringOf(FirstTruthy(item, <<"id", "uuid", "key">>,
                                   JStr(StringOfNat(index)))),
       content |-> FirstTruthy(item, <<"content">>, JStr(<<>>)),
       status |-> StatusOf(toLowerCase(
                      FirstTruthy(item, <<"status", "state">>, JStr(<<>>)).v)),
       priority |-> PriorityOf(toLowerCase(
                      FirstTruthy(item, <<"priority", "importance">>,
                                  JStr(<<>>)).v))]

\* TodoParser.parseTodoItem, for an item on which it does not throw
parseTodoItem(item, index) ==
    IF item.t = "str" THEN [defaultTodo(index) EXCEPT !.content = item]
    ELSE IF item.t \notin {"obj", "arr"} THEN defaultTodo(index)
    ELSE
      [id |-> StringOf(FirstTruthy(item, <<"id", "uuid", "key">>,
                                   JStr(StringOfNat(index)))),
       content |-> FirstTruthy(item,
                      <<"content", "text", "description", "title", "name">>,
                      JStr(<<>>)),
       status |-> StatusOf(toLowerCase(
                      FirstTruthy(item, <<"status", "state">>, JStr(<<>>)).v)),
       priority |-> PriorityOf(toLowerCase(
                      FirstTruthy(item, <<"priority", "importance">>,
                                  JStr(<<>>)).v))]

Unknown == <<"u", "n", "k", "n", "o", "w", "n">>

\* the raw list validateAndTransform maps parseTodoItem over
RawItems(data) ==
    IF data.t = "arr" THEN data.v
    ELSE IF Truthy(Get(data, "todos")) /\ Get(data, "todos").t = "arr"
    THEN Get(data, "todos").v
    ELSE IF Truthy(Get(data, "items")) /\ Get(data, "items").t = "arr"
    THEN Get(data, "items").v
    ELSE IF /\ data.t = "obj"
            /\ \/ Truthy(Get(data, "content"))
               \/ Truthy(Get(data, "description"))
               \/ Truthy(Get(data, "text"))
    THEN <<data>>
    ELSE <<>>

\* validateAndTransform throws: data.todos of null, or an item that throws
TransformThrows(data) ==
    \/ data.t = "null"
    \/ \E i \in 1..Len(RawItems(data)) : ItemThrows(RawItems(data)[i])

\* TodoParser.validateAndTransform (lastUpdated, the file's mtime, is left out)
validateAndTransform(data, filePath) ==
    [sessionId |-> IF extractSessionId(filePath) # NoMatch
                   THEN extractSessionId(filePath) ELSE Unknown,
     todos |-> [i \in 1..Len(RawItems(data)) |->
                   parseTodoItem(RawItems(data)[i], i - 1)],
     filePath |-> filePath]

(***************************************************************************)
(* The todos directory.  The state names sessions and paths by short       *)
(* strings; Chars gives the characters of each.  A path is its file name   *)
(* (every path is path.join(TODOS_DIR, name)); the empty string stands for *)
(* undefined and for null.                                                 *)
(***************************************************************************)
NoSession == ""
Sessions == {"a1", "b2"}

\* todos-a1.json and a1-x.json: no pattern of extractSessionId matches a1-x.json
DirOrder == <<"a1-x.json", "todos-a1.json">>
Paths == {DirOrder[i] : i \in 1..Len(DirOrder)}

Chars ==
    [s \in Sessions \cup Paths \cup {NoSession, "unknown"} |->
        CASE s = "a1" -> <<"a", "1">>
          [] s = "b2" -> <<"b", "2">>
          [] s = "unknown" -> Unknown
          [] s = "todos-a1.json" ->
               <<"t", "o", "d", "o", "s", "-", "a", "1">> \o DotJson
          [] s = "a1-x.json" -> <<"a", "1", "-", "x">> \o DotJson
          [] OTHER -> <<>>]

\* the short string of a sequence of characters
StrOf(chars) == CHOOSE s \in DOMAIN Chars : Chars[s] = chars

\* extractSessionId of each path ("" for null)
SessionIdOf == [p \in Paths |-> StrOf(extractSessionId(Chars[p]))]

\* isSessionTodoFile of each path and session
IsSessionFile ==
    [p \in Paths, s \in Sessions |-> isSessionTodoFile(Chars[p], Chars[s])]

Pending == JStr(<<"p", "e", "n", "d", "i", "n", "g">>)
Completed == JStr(<<"c", "o", "m", "p", "l", "e", "t", "e", "d">>)

\* what a file may hold: two pending items, the same with the second one
\* completed, and bytes that are not JSON
Contents == {"twoPending", "oneCompleted", "malformed"}
Missing == "missing"

Item(content, status) ==
    JObj([content |-> JStr(content), status |-> status])

\* JSON.parse of the bytes of a well-formed content
Document(c) ==
    CASE c = "twoPending" ->
           JObj([todos |-> JArr(<<Item(<<"x">>, Pending), Item(<<"y">>, Pending)>>)])
      [] c = "oneCompleted" ->
           JObj([todos |-> JArr(<<Item(<<"x">>, Pending), Item(<<"y">>, Completed)>>)])

\* JSON.parse throws a SyntaxError
JsonParseThrows(c) == c = "malformed"

\* the TodoList a successful parse of content c at path p returns
TodoListOf ==
    [c \in {x \in Contents : ~JsonParseThrows(x) /\ ~TransformThrows(Document(x))},
     p \in Paths |->
        [validateAndTransform(Document(c), Chars[p]) EXCEPT
            !.sessionId = StrOf(@), !.filePath = p]]

(***************************************************************************)
(* HookManager: the hooks of the settings document.  A HookDefinition is   *)
(* [matcher, hooks]: matcher is "" when the key is absent, hooks is the    *)
(* sequence of the commands of its HookConfigs (all of type "command").    *)
(* The state names a command by a short string; CommandChars gives its     *)
(* characters.                                                             *)
(***************************************************************************)
\* the ports the listener may have been given by listen(0)
Ports == {4001, 4002}

\* String(port)
RECURSIVE PortDigits(_)
PortDigits(n) ==
    IF n < 10 THEN StringOfNat(n)
    ELSE PortDigits(n \div 10) \o StringOfNat(n % 10)

\* "http://127.0.0.1:"
ListenerHost ==
    <<"h", "t", "t", "p", ":", "/", "/", "1", "2", "7", ".", "0", ".", "0",
      ".", "1", ":">>

\* HookServer.getUrl with the server listening on port
getUrl(port) == ListenerHost \o PortDigits(port)

\* "curl -s -X POST "
CurlPost ==
    <<"c", "u", "r", "l", " ", "-", "s", " ", "-", "X", " ", "P", "O", "S",
      "T", " ">>

\* " -H \"Content-Type: application/json\" -d @-"
CurlTail ==
    <<" ", "-", "H", " ", "\"", "C", "o", "n", "t", "e", "n", "t", "-",
      "T", "y", "p", "e", ":", " ", "a", "p", "p", "l", "i", "c", "a", "t",
      "i", "o", "n", "/", "j", "s", "o", "n", "\"", " ", "-", "d", " ",
      "@", "-">>

\* "/hook/"
HookPath == <<"/", "h", "o", "o", "k", "/">>

\* "/hook/session"
HookSessionPath == HookPath \o <<"s", "e", "s", "s", "i", "o", "n">>

\* "/hook/todo"
HookTodoPath == HookPath \o <<"t", "o", "d", "o">>

\* the command of the UserPromptSubmit hook installHooks builds
SessionCommand(serverUrl) == CurlPost \o serverUrl \o HookSessionPath \o CurlTail

\* the command of the PostToolUse hook installHooks builds
TodoCommand(serverUrl) == CurlPost \o serverUrl \o HookTodoPath \o CurlTail

\* the commands of the model: the two installHooks builds, for each port, a
\* user's script kept in a directory named hook, and a user's echo
CommandNames ==
    {"session:4001", "session:4002", "todo:4001", "todo:4002", "lint", "echo"}

CommandChars ==
    [c \in CommandNames |->
        CASE c = "session:4001" -> SessionCommand(getUrl(4001))
          [] c = "session:4002" -> SessionCommand(getUrl(4002))
          [] c = "todo:4001" -> TodoCommand(getUrl(4001))
          [] c = "todo:4002" -> TodoCommand(getUrl(4002))
          [] c = "lint" ->
               <<"s", "h", " ", "~", "/", "h", "o", "o", "k", "/", "l",
                 "i", "n", "t", ".", "s", "h">>
          [] c = "echo" ->
               <<"e", "c", "h", "o", " ", "d", "o", "n", "e">>]

\* the short string of a command
CommandNamed(chars) == CHOOSE c \in CommandNames : CommandChars[c] = chars

\* hook.command && hook.command.includes(sub), of each command
CommandIncludes(sub) ==
    [c \in CommandNames |->
        CommandChars[c] # <<>> /\ includes(CommandChars[c], sub)]

HasHookPath == CommandIncludes(HookPath)
HasHookSessionPath == CommandIncludes(HookSessionPath)
HasHookTodoPath == CommandIncludes(HookTodoPath)

HookDefinition(matcher, commands) == [matcher |-> matcher, hooks |-> commands]

\* the claudePilotHooks object of installHooks
claudePilotHooks(serverUrl) ==
    [UserPromptSubmit |->
        << HookDefinition("", <<CommandNamed(SessionCommand(serverUrl))>>) >>,
     PostToolUse |->
        << HookDefinition("TodoWrite",
                          <<CommandNamed(TodoCommand(serverUrl))>>) >>]

\* hookDef.hooks.some(hook => hook.command && hook.command.includes(sub))
SomeCommand(hookDef, has) == \E i \in DOMAIN hookDef.hooks : has[hookDef.hooks[i]]

\* mergeHooks that only appends
mergeHooksAppend(existing, newHooks, identifier, matcher) ==
    existing \o newHooks

\* mergeHooks that drops the entries whose commands are those of the new ones
mergeHooksSameCommand(existing, newHooks, identifier, matcher) ==
    SelectSeq(existing, LAMBDA hookDef :
        \A i \in DOMAIN newHooks : hookDef.hooks # newHooks[i].hooks)
    \o newHooks

\* HookManager.mergeHooks (matcher is "" when the argument is left out)
mergeHooks(existing, newHooks, identifier, matcher) ==
    LET filtered == SelectSeq(existing, LAMBDA hookDef :
            \/ ~SomeCommand(hookDef, HasHookPath)
            \/ (matcher # "" /\ hookDef.matcher # matcher))
    IN  filtered \o newHooks

(***************************************************************************)
(* The settings file: [kind, format, hasHooks, hooks].  kind is "absent"   *)
(* (no file), "corrupt" (bytes JSON.parse throws on), "null" (the JSON     *)
(* text null) or "json" (an object); format tells the bytes of equal       *)
(* documents apart ("indent2" is what JSON.stringify(settings, null, 2)    *)
(* writes); hasHooks says whether the object has the key hooks, and hooks  *)
(* maps the categories it has to their arrays.                             *)
(***************************************************************************)
Categories == {"UserPromptSubmit", "PostToolUse", "PreToolUse"}

SettingsFile(kind, format, hasHooks, hooks) ==
    [kind |-> kind, format |-> format, hasHooks |-> hasHooks, hooks |-> hooks]

AbsentFile == SettingsFile("absent", "", FALSE, <<>>)
CorruptFile == SettingsFile("corrupt", "user", FALSE, <<>>)
NullFile == SettingsFile("null", "user", FALSE, <<>>)

\* settings.hooks[category] || []
ArrayOf(hooks, category) ==
    IF category \in DOMAIN hooks THEN hooks[category] ELSE <<>>

\* settings.hooks[category] = array
WithArray(hooks, category, array) ==
    [c \in DOMAIN hooks \cup {category} |->
        IF c = category THEN array ELSE hooks[c]]

\* delete settings.hooks[category]
WithoutArray(hooks, category) ==
    [c \in DOMAIN hooks \ {category} |-> hooks[c]]

\* installHooks that recreates a corrupted file without copying it aside
installHooksNoBackup(file, bks, warned, port, copyOk) ==
    IF file.kind = "null"
    THEN [file |-> file, backups |-> bks, warnings |-> warned,
          result |-> "threw"]
    ELSE LET ours == claudePilotHooks(getUrl(port))
             hooks == IF file.kind = "json" /\ file.hasHooks THEN file.hooks
                      ELSE <<>>
             session == mergeHooks(ArrayOf(hooks, "UserPromptSubmit"),
                                   ours.UserPromptSubmit,
                                   "claudepilot-session", "")
             todo == mergeHooks(ArrayOf(hooks, "PostToolUse"),
                                ours.PostToolUse, "claudepilot-todo",
                                "TodoWrite")
         IN  [file |-> SettingsFile("json", "indent2", TRUE,
                          WithArray(WithArray(hooks, "UserPromptSubmit",
                                              session),
                                    "PostToolUse", todo)),
              backups |-> bks,
              warnings |-> IF file.kind = "corrupt" THEN warned + 1
                           ELSE warned,
              result |-> "ok"]

\* HookManager.installHooks with the server listening on port: the file, the
\* backups and the warnings shown afterwards, and whether it returned ("ok")
\* or threw.  It throws, before it has written, when copyFileSync throws
\* (copyOk is FALSE) and when the document is null.
installHooks(file, bks, warned, port, copyOk) ==
    IF (file.kind = "corrupt" /\ ~copyOk) \/ file.kind = "null"
    THEN [file |-> file, backups |-> bks, warnings |-> warned,
          result |-> "threw"]
    ELSE LET ours == claudePilotHooks(getUrl(port))
             hooks == IF file.kind = "json" /\ file.hasHooks THEN file.hooks
                      ELSE <<>>
             session == mergeHooks(ArrayOf(hooks, "UserPromptSubmit"),
                                   ours.UserPromptSubmit,
                                   "claudepilot-session", "")
             todo == mergeHooks(ArrayOf(hooks, "PostToolUse"),
                                ours.PostToolUse, "claudepilot-todo",
                                "TodoWrite")
         IN  [file |-> SettingsFile("json", "indent2", TRUE,
                          WithArray(WithArray(hooks, "UserPromptSubmit",
                                              session),
                                    "PostToolUse", todo)),
              backups |-> IF file.kind = "corrupt" THEN bks \cup {file}
                          ELSE bks,
              warnings |-> IF file.kind = "corrupt" THEN warned + 1
                           ELSE warned,
              result |-> "ok"]

\* the filter of uninstall on the array of a category, and the delete of the
\* array it leaves empty
Uninstalled(hooks, category) ==
    IF category \notin DOMAIN hooks THEN hooks
    ELSE LET left == SelectSeq(hooks[category], LAMBDA hookDef :
                        ~SomeCommand(hookDef, HasHookPath))
         IN  IF Len(left) = 0 THEN WithoutArray(hooks, category)
             ELSE WithArray(hooks, category, left)

\* HookManager.uninstall: the file afterwards.  Nothing is written when the
\* file is absent, when reading it throws, and when it has no hooks.
uninstall(file) ==
    IF file.kind # "json" \/ ~file.hasHooks THEN file
    ELSE SettingsFile("json", "indent2", TRUE,
             Uninstalled(Uninstalled(file.hooks, "UserPromptSubmit"),
                         "PostToolUse"))

\* isInstalled that is content with either hook
isInstalledEither(file) ==
    /\ file.kind = "json"
    /\ file.hasHooks
    /\ \/ \E i \in DOMAIN ArrayOf(file.hooks, "UserPromptSubmit") :
            SomeCommand(file.hooks["UserPromptSubmit"][i], HasHookSessionPath)
       \/ \E i \in DOMAIN ArrayOf(file.hooks, "PostToolUse") :
            SomeCommand(file.hooks["PostToolUse"][i], HasHookTodoPath)

\* HookManager.isInstalled
isInstalled(file) ==
    /\ file.kind = "json"
    /\ file.hasHooks
    /\ \E i \in DOMAIN ArrayOf(file.hooks, "UserPromptSubmit") :
          SomeCommand(file.hooks["UserPromptSubmit"][i], HasHookSessionPath)
    /\ \E i \in DOMAIN ArrayOf(file.hooks, "PostToolUse") :
          SomeCommand(file.hooks["PostToolUse"][i], HasHookTodoPath)

(***************************************************************************)
(* State.                                                                  *)
(***************************************************************************)
VARIABLES
    disk,                 \* path -> the content of its file, or Missing
    currentSessionId,     \* TodoManager.currentSessionId
    todoCache,            \* TodoManager.todoCache: path -> TodoList
    parseDebounceTimers,  \* keys of TodoManager.parseDebounceTimers
    pendingTimeouts,      \* path -> scheduled, uncancelled debounce timeouts
    parses,               \* the parseTodoFile calls awaiting their file
    watcherSessionId,     \* TodoWatcher.currentSessionId
    fileWatcher,          \* session the directory watch filters by, or NoSession
    watchedFiles,         \* keys of TodoWatcher.watchedFiles
    deadWatches,          \* watched paths whose watched file has been unlinked
    pendingStats,         \* the outstanding fs.stat calls of handleDirectoryEvent
    emitted,              \* the ChangeEvents the last step emitted, in order
    todoChanged,          \* the TodoFileEvents the watcher emitted in the last step
    act,                  \* the last step: <<name, argument>>
    lastStarted,          \* history: the argument of the latest startSession
    earlier,              \* history: the arguments of the startSessions before it
    staleTimers,          \* history: timeouts scheduled before the latest startSession
    envOps,               \* history: calls, hook events, writes and deletes so far
    trace,                \* history: the log of a test harness, <<>> when there is none
    settingsFile,         \* the file at HookManager.settingsPath
    backups,              \* the contents of the settings.json.backup-* files
    warnings,             \* showWarningMessage calls of installHooks so far
    hookAct,              \* the last HookManager step: <<name, port, result>>
    prevHookAct,          \* history: the HookManager step before it
    before,               \* history: settingsFile before the last step
    before2,              \* history: settingsFile before the step before it
    hookOps,              \* history: HookManager calls and outside writes so far
    httpServers,          \* the http.Server objects created, in order
    server,               \* HookServer.server: an index of httpServers, 0 for null
    serverPort,           \* HookServer.port
    isRunning,            \* HookServer.isRunning
    inflight,             \* the requests handleRequest is awaiting something for
    globalState,          \* context.globalState: key -> the body it was built from
    served,               \* history: the requests answered, with answer and events
    srvAct,               \* the last HookServer step: <<name, value>>
    srvOps,               \* history: start() and stop() calls so far
    sessionState,         \* globalState['claudePilot.sessionState']
    now,                  \* Date.now()
    elapsed,              \* history: the periods of time that have passed
    storeAct,             \* the last SessionManager call: <<name, id, days, time>>
    storeBefore,          \* history: sessionState before that call
    storeOps,             \* history: SessionManager calls so far
    parsedFile,           \* the file TodoParser.parseTodoFile is called on
    parsedPath,           \* its path
    parseResult,          \* the ParseResult of the call
    parseCalls,           \* history: the calls so far
    exportCache,          \* the values of the todoCache the exports are called on
    markdown,             \* the lines exportAsMarkdown returned
    plainText,            \* the lines exportAsPlainText returned
    exportCalls           \* history: the export calls so far

todoVars == <<disk, currentSessionId, todoCache, parseDebounceTimers,
              pendingTimeouts, parses, watcherSessionId, fileWatcher,
              watchedFiles, deadWatches, pendingStats, emitted, todoChanged,
              act,
              lastStarted, earlier, staleTimers, envOps, trace>>

hookVars == <<settingsFile, backups, warnings, hookAct, prevHookAct, before,
              before2, hookOps>>

serverVars == <<httpServers, server, serverPort, isRunning, inflight,
                globalState, served, srvAct, srvOps>>

storeVars == <<sessionState, now, elapsed, storeAct, storeBefore, storeOps>>

parserVars == <<parsedFile, parsedPath, parseResult, parseCalls>>

exportVars == <<exportCache, markdown, plainText, exportCalls>>

vars == <<todoVars, hookVars, serverVars, storeVars, parserVars, exportVars>>

\* what the steps of one component leave alone
besideTodo == <<hookVars, serverVars, storeVars, parserVars, exportVars>>

besideHooks == <<todoVars, serverVars, storeVars, parserVars, exportVars>>

besideServer == <<todoVars, hookVars, storeVars, parserVars, exportVars>>

besideStore == <<todoVars, hookVars, serverVars, parserVars, exportVars>>

besideParser == <<todoVars, hookVars, serverVars, storeVars, exportVars>>

besideExport == <<todoVars, hookVars, serverVars, storeVars, parserVars>>

\* at most this many calls, hook events, writes and deletes in a behaviour
MaxEnvOps == 3

\* the same, in a behaviour a test harness logs
MaxTracedOps == 2

Budget == IF trace = <<>> THEN MaxEnvOps ELSE MaxTracedOps

(***************************************************************************)
(* The log of a test harness: how it set the program up, then, in order,   *)
(* each thing it did to the program or to the directory, each debounce     *)
(* window it let elapse, and each ChangeEvent its listener received.       *)
(***************************************************************************)
Entry(op, arg) == [op |-> op, arg |-> arg]

Emits(events) == [i \in 1..Len(events) |-> Entry("emit", events[i])]

Log(ops, events) ==
    IF trace = <<>> THEN trace ELSE trace \o ops \o Emits(events)

\* at most this many parseTodoFile and fs.stat calls are outstanding at once
MaxPending == 2

\* x || y on session ids
OrElse(x, y) == IF x # "" THEN x ELSE y

Exists(d, p) == d[p] # Missing

\* fs.readdirSync filtered by isSessionTodoFile: getCurrentSessionFiles and
\* the scan of watchExistingSessionFiles
SessionFiles(d, sessionId) ==
    SelectSeq(DirOrder, LAMBDA p : Exists(d, p) /\ IsSessionFile[p, sessionId])

Range(seq) == {seq[i] : i \in 1..Len(seq)}

(***************************************************************************)
(* TodoManager.                                                            *)
(***************************************************************************)
ChangeEvent(type, sessionId, todoList, error) ==
    [type |-> type, sessionId |-> sessionId, todoList |-> todoList,
     error |-> error]

\* TodoManager.handleParseError: the event it emits
handleParseError(filePath, cur) ==
    ChangeEvent("updated",
                OrElse(OrElse(SessionIdOf[filePath], cur), "unknown"),
                <<>>, TRUE)

\* debouncedParseTodoFile that leaves the timeout it replaces scheduled
debounceWithoutClear(t, filePath) ==
    << t[1] \cup {filePath}, [t[2] EXCEPT ![filePath] = @ + 1] >>

\* TodoManager.debouncedParseTodoFile, on the pair <<keys, timeouts>>
debouncedParseTodoFile(t, filePath) ==
    LET cleared == IF filePath \in t[1]
                   THEN [t[2] EXCEPT ![filePath] = @ - 1] ELSE t[2]
    IN  << t[1] \cup {filePath}, [cleared EXCEPT ![filePath] = @ + 1] >>

\* debouncedParseTodoFile for each path of a sequence, in order
RECURSIVE DebounceAll(_, _)
DebounceAll(t, files) ==
    IF files = <<>> THEN t
    ELSE DebounceAll(debouncedParseTodoFile(t, Head(files)), Tail(files))

\* a parseTodoFile call whose readFile is outstanding; slot tells apart
\* calls that are otherwise alike
AwaitingFile(filePath, origin, rest, slot) ==
    [filePath |-> filePath, origin |-> origin, content |-> "unread",
     rest |-> rest, slot |-> slot]

\* the slots free for one more outstanding call
FreeSlots ==
    (1..MaxPending) \ ({r.slot : r \in parses} \cup {st.slot : st \in pendingStats})

Lowest(S) == CHOOSE n \in S : \A m \in S : n <= m

(***************************************************************************)
(* The loop of loadExistingTodos from the file it is about to parse: a     *)
(* file that existsSync does not find yields an error event at once and    *)
(* the loop goes on; the first file found is read asynchronously, and the  *)
(* files after it wait.  The result is <<events, files still to parse>>.   *)
(***************************************************************************)
RECURSIVE LoadFrom(_, _, _)
LoadFrom(files, d, cur) ==
    IF files = <<>> THEN << <<>>, <<>> >>
    ELSE IF Exists(d, Head(files)) THEN << <<>>, files >>
    ELSE LET more == LoadFrom(Tail(files), d, cur)
         IN  << <<handleParseError(Head(files), cur)>> \o more[1], more[2] >>

\* a load that finds no file
loadNothing(d, cur, watcherCur) == << <<>>, <<>> >>

\* TodoManager.loadExistingTodos
loadExistingTodos(d, cur, watcherCur) ==
    IF cur = NoSession THEN << <<>>, <<>> >>
    ELSE LoadFrom(IF watcherCur = NoSession THEN <<>>
                  ELSE SessionFiles(d, watcherCur), d, cur)

\* the parse a load starts for the first of the files left to it
LoadParse(files, slot) ==
    IF files = <<>> THEN {}
    ELSE {AwaitingFile(Head(files), "load", Tail(files), slot)}

Room == FreeSlots # {}

\* no session has been started yet
Idle ==
    /\ currentSessionId = NoSession
    /\ todoCache = <<>>
    /\ watcherSessionId = NoSession
    /\ fileWatcher = NoSession
    /\ watchedFiles = {}
    /\ lastStarted = NoSession

\* session s is tracked and nothing is pending: its files are watched and
\* their parses cached, as startSession leaves them once its parses and
\* timers are through
Tracking(s) ==
    /\ currentSessionId = s
    /\ todoCache = [p \in Range(SessionFiles(disk, s)) |-> TodoListOf[disk[p], p]]
    /\ watcherSessionId = s
    /\ fileWatcher = s
    /\ watchedFiles = Range(SessionFiles(disk, s))
    /\ lastStarted = s

\* no settings file yet, and HookManager has not been called
HooksAtRest ==
    /\ settingsFile = AbsentFile
    /\ backups = {}
    /\ warnings = 0
    /\ hookAct = <<"Init", 0, "ok">>
    /\ prevHookAct = <<"Init", 0, "ok">>
    /\ before = AbsentFile
    /\ before2 = AbsentFile
    /\ hookOps = 0

\* no component of the listener has run
ServerAtRest ==
    /\ httpServers = <<>>
    /\ server = 0
    /\ serverPort = 0
    /\ isRunning = FALSE
    /\ inflight = {}
    /\ globalState = [currentSession |-> "none", latestTodoUpdate |-> "none"]
    /\ served = <<>>
    /\ srvAct = <<"Init", 0>>
    /\ srvOps = 0

\* SessionManager has not been called
StoreAtRest ==
    /\ sessionState = [lastSessionId |-> NoSession, sessionHistory |-> <<>>]
    /\ now = 0
    /\ elapsed = 0
    /\ storeAct = <<"Init", "", 0, 0>>
    /\ storeBefore = sessionState
    /\ storeOps = 0

\* TodoParser has not been called on a file of its own
ParserAtRest ==
    /\ parsedFile = [kind |-> "missing", data |-> Undefined]
    /\ parsedPath = DirOrder[1]
    /\ parseResult = [success |-> FALSE, error |-> "", data |-> <<>>]
    /\ parseCalls = 0

\* no export has been called
ExportAtRest ==
    /\ exportCache = <<>>
    /\ markdown = <<>>
    /\ plainText = <<>>
    /\ exportCalls = 0

Start ==
    /\ disk \in [Paths -> {Missing, "twoPending"}]
    /\ Idle \/ Tracking("a1")
    /\ parseDebounceTimers = {}
    /\ pendingTimeouts = [p \in Paths |-> 0]
    /\ parses = {}
    /\ deadWatches = {}
    /\ pendingStats = {}
    /\ emitted = <<>>
    /\ todoChanged = <<>>
    /\ act = <<"Init", "">>
    /\ earlier = {}
    /\ staleTimers = {}
    /\ envOps = 0
    /\ HooksAtRest
    /\ ServerAtRest
    /\ StoreAtRest
    /\ ParserAtRest
    /\ ExportAtRest

Init == Start /\ trace = <<>>

InitTraced == Start /\ trace = <<Entry("Init", <<currentSessionId, disk>>)>>

\* an emitTodoEvent that stamps the session whose directory watch reports
\* the path
emitTodoEventOfWatch(type, filePath, cur) ==
    [type |-> type, filePath |-> filePath,
     sessionId |-> IF \E s \in Sessions : IsSessionFile[filePath, s]
                   THEN CHOOSE s \in Sessions : IsSessionFile[filePath, s]
                   ELSE cur]

\* TodoWatcher.emitTodoEvent with this.currentSessionId at cur: the
\* TodoFileEvent
emitTodoEvent(type, filePath, cur) ==
    [type |-> type, filePath |-> filePath, sessionId |-> cur]

\* TodoManager.startSession with TodoWatcher.startWatching, up to the first
\* await of loadExistingTodos
startSession(sessionId) ==
    LET files == SessionFiles(disk, sessionId)
        t == DebounceAll(<<parseDebounceTimers, pendingTimeouts>>, files)
        load == loadExistingTodos(disk, sessionId, sessionId)
    IN  /\ load[2] # <<>> => Room
        /\ currentSessionId' = sessionId
        /\ todoCache' = <<>>
        /\ watcherSessionId' = sessionId
        /\ fileWatcher' = sessionId
        /\ watchedFiles' = Range(files)
        /\ deadWatches' = {}
        /\ parseDebounceTimers' = t[1]
        /\ pendingTimeouts' = t[2]
        /\ parses' = parses \cup LoadParse(load[2], Lowest(FreeSlots))
        /\ emitted' = load[1]
        /\ todoChanged' = [i \in DOMAIN files |->
              emitTodoEvent("created", files[i], sessionId)]
        /\ lastStarted' = sessionId
        /\ earlier' = earlier \cup (IF lastStarted = NoSession THEN {}
                                     ELSE {lastStarted})
        /\ staleTimers' = {p \in Paths : pendingTimeouts[p] > 0} \ Range(files)
        /\ UNCHANGED <<disk, pendingStats>>

StartSession(sessionId) ==
    /\ startSession(sessionId)
    /\ act' = <<"StartSession", sessionId>>
    /\ envOps < Budget
    /\ envOps' = envOps + 1
    /\ trace' = Log(<<Entry("StartSession", sessionId)>>, emitted')
    /\ UNCHANGED besideTodo

\* TodoManager.stopSession with TodoWatcher.stopWatching
StopSession ==
    /\ currentSessionId' = NoSession
    /\ fileWatcher' = NoSession
    /\ watchedFiles' = {}
    /\ deadWatches' = {}
    /\ todoCache' = <<>>
    /\ pendingTimeouts' = [p \in Paths |->
          IF p \in parseDebounceTimers THEN pendingTimeouts[p] - 1
          ELSE pendingTimeouts[p]]
    /\ parseDebounceTimers' = {}
    /\ staleTimers' = staleTimers \ parseDebounceTimers
    /\ emitted' = <<>>
    /\ act' = <<"StopSession", "">>
    /\ todoChanged' = <<>>
    /\ UNCHANGED <<disk, parses, watcherSessionId, pendingStats, lastStarted,
                   earlier>>
    /\ envOps < Budget
    /\ envOps' = envOps + 1
    /\ trace' = Log(<<Entry("StopSession", "")>>, emitted')
    /\ UNCHANGED besideTodo

\* a handler that takes the todos of the notification for the lists of the
\* session it names
notifiedCacheFromPayload(cache, update) ==
    [p \in DOMAIN cache |->
        IF cache[p].sessionId = update.sessionId
        THEN [cache[p] EXCEPT !.todos = update.todos] ELSE cache[p]]

\* what handling a todoUpdate leaves in the cache: handleTodoNotification
\* does not touch it
notifiedCache(cache, update) == cache

\* TodoManager.handleTodoNotification
handleTodoNotification(update) ==
    LET load == IF currentSessionId = update.sessionId
                THEN loadExistingTodos(disk, currentSessionId, watcherSessionId)
                ELSE << <<>>, <<>> >>
    IN  /\ load[2] # <<>> => Room
        /\ todoCache' = notifiedCache(todoCache, update)
        /\ emitted' = <<ChangeEvent("updated", update.sessionId, <<>>, FALSE)>>
                         \o load[1]
        /\ parses' = parses \cup LoadParse(load[2], Lowest(FreeSlots))
        /\ UNCHANGED <<disk, currentSessionId, parseDebounceTimers,
                       pendingTimeouts, watcherSessionId, fileWatcher,
                       watchedFiles, deadWatches, pendingStats, lastStarted,
                       earlier, staleTimers>>

\* the todos a TodoWrite hook may carry: a list no file of the model holds
HookTodos ==
    << [id |-> <<"1">>, content |-> JStr(<<"h">>), status |-> "in_progress",
        priority |-> "high"] >>

\* HookServer emits todoUpdate
TodoNotification(sessionId) ==
    /\ handleTodoNotification([sessionId |-> sessionId, todos |-> HookTodos])
    /\ act' = <<"TodoNotification", sessionId>>
    /\ todoChanged' = <<>>
    /\ envOps < Budget
    /\ envOps' = envOps + 1
    /\ trace' = Log(<<Entry("TodoNotification", sessionId)>>, emitted')
    /\ UNCHANGED besideTodo

\* a handler that switches on every session id the hook names, the active
\* one included
SessionUpdateUnguarded(sessionId) ==
    /\ IF sessionId # NoSession
       THEN startSession(sessionId)
       ELSE /\ emitted' = <<>>
            /\ todoChanged' = <<>>
            /\ UNCHANGED <<disk, currentSessionId, todoCache,
                           parseDebounceTimers, pendingTimeouts, parses,
                           watcherSessionId, fileWatcher, watchedFiles,
                           deadWatches, pendingStats, lastStarted, earlier,
                           staleTimers>>
    /\ act' = <<"SessionUpdate", sessionId>>
    /\ envOps < Budget
    /\ envOps' = envOps + 1
    /\ trace' = Log(<<Entry("SessionUpdate", sessionId)>>, emitted')
    /\ UNCHANGED besideTodo

\* HookServer emits sessionUpdate: TodoManager.handleSessionUpdate
SessionUpdate(sessionId) ==
    /\ IF sessionId # NoSession /\ sessionId # currentSessionId
       THEN startSession(sessionId)
       ELSE /\ emitted' = <<>>
            /\ todoChanged' = <<>>
            /\ UNCHANGED <<disk, currentSessionId, todoCache,
                           parseDebounceTimers, pendingTimeouts, parses,
                           watcherSessionId, fileWatcher, watchedFiles,
                           deadWatches, pendingStats, lastStarted, earlier,
                           staleTimers>>
    /\ act' = <<"SessionUpdate", sessionId>>
    /\ envOps < Budget
    /\ envOps' = envOps + 1
    /\ trace' = Log(<<Entry("SessionUpdate", sessionId)>>, emitted')
    /\ UNCHANGED besideTodo

(***************************************************************************)
(* TodoWatcher.                                                            *)
(***************************************************************************)
\* handleDirectoryEvent has called fs.stat for p
Stat(p) == [filePath |-> p, result |-> "pending", slot |-> Lowest(FreeSlots)]

\* the directory watch's callback stats the path when the name belongs to
\* the session the watch was started for
DirectoryNotified(p) ==
    fileWatcher # NoSession /\ IsSessionFile[p, fileWatcher]

\* another process writes the file of p (creating it if need be)
WriteFile(p, c) ==
    LET changed == p \in watchedFiles \ deadWatches
        t == IF changed
             THEN debouncedParseTodoFile(
                      <<parseDebounceTimers, pendingTimeouts>>, p)
             ELSE <<parseDebounceTimers, pendingTimeouts>>
    IN  /\ DirectoryNotified(p) => Room
        /\ disk' = [disk EXCEPT ![p] = c]
        /\ pendingStats' = IF DirectoryNotified(p)
              THEN pendingStats \cup {Stat(p)}
              ELSE pendingStats
        /\ parseDebounceTimers' = t[1]
        /\ pendingTimeouts' = t[2]
        /\ staleTimers' = IF changed THEN staleTimers \ {p} ELSE staleTimers
        /\ emitted' = <<>>
        /\ act' = <<"WriteFile", p>>
        /\ todoChanged' = IF changed
              THEN <<emitTodoEvent("updated", p, watcherSessionId)>>
              ELSE <<>>
        /\ UNCHANGED <<currentSessionId, todoCache, parses, watcherSessionId,
                       fileWatcher, watchedFiles, deadWatches, lastStarted,
                       earlier>>
    /\ envOps < Budget
    /\ envOps' = envOps + 1
    /\ trace' = Log(<<Entry("WriteFile", <<p, c>>)>>, emitted')
    /\ UNCHANGED besideTodo

\* another process deletes the file of p
DeleteFile(p) ==
    /\ Exists(disk, p)
    /\ DirectoryNotified(p) => Room
    /\ disk' = [disk EXCEPT ![p] = Missing]
    /\ deadWatches' = deadWatches \cup ({p} \cap watchedFiles)
    /\ pendingStats' = IF DirectoryNotified(p)
          THEN pendingStats \cup {Stat(p)}
          ELSE pendingStats
    /\ emitted' = <<>>
    /\ act' = <<"DeleteFile", p>>
    /\ todoChanged' = <<>>
    /\ UNCHANGED <<currentSessionId, todoCache, parseDebounceTimers,
                   pendingTimeouts, parses, watcherSessionId, fileWatcher,
                   watchedFiles, lastStarted, earlier, staleTimers>>
    /\ envOps < Budget
    /\ envOps' = envOps + 1
    /\ trace' = Log(<<Entry("DeleteFile", p)>>, emitted')
    /\ UNCHANGED besideTodo

\* another process deletes the file of p and the directory watch's callback
\* is called without a filename: it returns at once, and nothing is stat'ed
DeleteFileUnnamed(p) ==
    /\ Exists(disk, p)
    /\ fileWatcher # NoSession
    /\ disk' = [disk EXCEPT ![p] = Missing]
    /\ deadWatches' = deadWatches \cup ({p} \cap watchedFiles)
    /\ emitted' = <<>>
    /\ act' = <<"DeleteFileUnnamed", p>>
    /\ todoChanged' = <<>>
    /\ UNCHANGED <<currentSessionId, todoCache, parseDebounceTimers,
                   pendingTimeouts, parses, watcherSessionId, fileWatcher,
                   watchedFiles, pendingStats, lastStarted, earlier,
                   staleTimers>>
    /\ envOps < Budget
    /\ envOps' = envOps + 1
    /\ trace' = Log(<<Entry("DeleteFileUnnamed", p)>>, emitted')
    /\ UNCHANGED besideTodo

\* fs.stat looks at the file
StatSample(st) ==
    /\ st \in pendingStats
    /\ st.result = "pending"
    /\ pendingStats' = (pendingStats \ {st}) \cup
          {[st EXCEPT !.result =
               IF Exists(disk, st.filePath) THEN "file" ELSE "ENOENT"]}
    /\ emitted' = <<>>
    /\ act' = <<"StatSample", st.filePath>>
    /\ todoChanged' = <<>>
    /\ UNCHANGED <<disk, currentSessionId, todoCache, parseDebounceTimers,
                   pendingTimeouts, parses, watcherSessionId, fileWatcher,
                   watchedFiles, deadWatches, lastStarted, earlier,
                   staleTimers>>
    /\ UNCHANGED envOps
    /\ trace' = Log(<<>>, emitted')
    /\ UNCHANGED besideTodo

\* a handleTodoFileDeleted that reports every deletion
handleTodoFileDeletedAlways(cache, filePath) ==
    IF filePath \in DOMAIN cache
    THEN << [q \in DOMAIN cache \ {filePath} |-> cache[q]],
            <<ChangeEvent("deleted", cache[filePath].sessionId,
                          <<cache[filePath]>>, FALSE)>> >>
    ELSE << cache,
            <<ChangeEvent("deleted", SessionIdOf[filePath], <<>>, FALSE)>> >>

\* TodoManager.handleTodoFileDeleted: <<cache, events>>
handleTodoFileDeleted(cache, filePath) ==
    IF filePath \in DOMAIN cache
    THEN << [q \in DOMAIN cache \ {filePath} |-> cache[q]],
            <<ChangeEvent("deleted", cache[filePath].sessionId,
                          <<cache[filePath]>>, FALSE)>> >>
    ELSE << cache, <<>> >>

\* a callback of fs.stat that does not ask whether the path is watched before
\* it emits created
StatCallbackUnasked(st) ==
    /\ st \in pendingStats
    /\ st.result # "pending"
    /\ pendingStats' = pendingStats \ {st}
    /\ act' = <<"StatCallback", st.filePath>>
    /\ IF st.result = "ENOENT"
       THEN LET del == handleTodoFileDeleted(todoCache, st.filePath)
            IN  /\ watchedFiles' = watchedFiles \ {st.filePath}
                /\ deadWatches' = deadWatches \ {st.filePath}
                /\ todoCache' = del[1]
                /\ emitted' = del[2]
                /\ todoChanged' = <<emitTodoEvent("deleted", st.filePath,
                                                 watcherSessionId)>>
                /\ UNCHANGED <<parseDebounceTimers, pendingTimeouts,
                               staleTimers>>
       ELSE IF st.filePath \notin watchedFiles
       THEN LET t == debouncedParseTodoFile(
                         <<parseDebounceTimers, pendingTimeouts>>, st.filePath)
            IN  \* fs.watch throws when the file is gone by now
                /\ watchedFiles' = IF Exists(disk, st.filePath)
                                   THEN watchedFiles \cup {st.filePath}
                                   ELSE watchedFiles
                /\ parseDebounceTimers' = t[1]
                /\ pendingTimeouts' = t[2]
                /\ staleTimers' = staleTimers \ {st.filePath}
                /\ emitted' = <<>>
                /\ todoChanged' = <<emitTodoEvent("created", st.filePath,
                                                 watcherSessionId)>>
                /\ UNCHANGED <<todoCache, deadWatches>>
       ELSE LET t == debouncedParseTodoFile(
                         <<parseDebounceTimers, pendingTimeouts>>, st.filePath)
            IN  /\ parseDebounceTimers' = t[1]
                /\ pendingTimeouts' = t[2]
                /\ staleTimers' = staleTimers \ {st.filePath}
                /\ emitted' = <<>>
                /\ todoChanged' = <<emitTodoEvent("created", st.filePath,
                                                 watcherSessionId)>>
                /\ UNCHANGED <<todoCache, watchedFiles, deadWatches>>
    /\ UNCHANGED <<disk, currentSessionId, parses, watcherSessionId,
                   fileWatcher, lastStarted, earlier>>
    /\ UNCHANGED envOps
    /\ trace' = Log(<<>>, emitted')
    /\ UNCHANGED besideTodo

\* the callback of fs.stat in handleDirectoryEvent: handleFileDeleted on
\* ENOENT, else watchFile and a created event when the path is not watched
StatCallback(st) ==
    /\ st \in pendingStats
    /\ st.result # "pending"
    /\ pendingStats' = pendingStats \ {st}
    /\ act' = <<"StatCallback", st.filePath>>
    /\ IF st.result = "ENOENT"
       THEN LET del == handleTodoFileDeleted(todoCache, st.filePath)
            IN  /\ watchedFiles' = watchedFiles \ {st.filePath}
                /\ deadWatches' = deadWatches \ {st.filePath}
                /\ todoCache' = del[1]
                /\ emitted' = del[2]
                /\ todoChanged' = <<emitTodoEvent("deleted", st.filePath,
                                                 watcherSessionId)>>
                /\ UNCHANGED <<parseDebounceTimers, pendingTimeouts,
                               staleTimers>>
       ELSE IF st.filePath \notin watchedFiles
       THEN LET t == debouncedParseTodoFile(
                         <<parseDebounceTimers, pendingTimeouts>>, st.filePath)
            IN  \* fs.watch throws when the file is gone by now
                /\ watchedFiles' = IF Exists(disk, st.filePath)
                                   THEN watchedFiles \cup {st.filePath}
                                   ELSE watchedFiles
                /\ parseDebounceTimers' = t[1]
                /\ pendingTimeouts' = t[2]
                /\ staleTimers' = staleTimers \ {st.filePath}
                /\ emitted' = <<>>
                /\ todoChanged' = <<emitTodoEvent("created", st.filePath,
                                                 watcherSessionId)>>
                /\ UNCHANGED <<todoCache, deadWatches>>
       ELSE /\ emitted' = <<>>
            /\ todoChanged' = <<>>
            /\ UNCHANGED <<todoCache, watchedFiles, deadWatches,
                           parseDebounceTimers, pendingTimeouts, staleTimers>>
    /\ UNCHANGED <<disk, currentSessionId, parses, watcherSessionId,
                   fileWatcher, lastStarted, earlier>>
    /\ UNCHANGED envOps
    /\ trace' = Log(<<>>, emitted')
    /\ UNCHANGED besideTodo

(***************************************************************************)
(* Parsing.                                                                *)
(***************************************************************************)
\* TodoParser.parseTodoFile once readFile has settled with content (Missing
\* when it rejected): JSON.parse, then validateAndTransform, whose statSync
\* throws when the file is gone by now; every throw becomes an error result
parseFails(content, filePath, d) ==
    \/ content = Missing
    \/ JsonParseThrows(content)
    \/ <<content, filePath>> \notin DOMAIN TodoListOf
    \/ ~Exists(d, filePath)

\* parseTodoFile that asks whether the path is cached after caching it
parseTodoFileSetFirst(cache, content, filePath, d, cur) ==
    IF parseFails(content, filePath, d)
    THEN << cache, handleParseError(filePath, cur) >>
    ELSE LET data == TodoListOf[content, filePath]
         IN  << [q \in DOMAIN cache \cup {filePath} |->
                    IF q = filePath THEN data ELSE cache[q]],
                ChangeEvent("updated", data.sessionId, <<data>>, FALSE) >>

\* parseTodoFile that files the list under the active session
parseTodoFileActiveSession(cache, content, filePath, d, cur) ==
    IF parseFails(content, filePath, d)
    THEN << cache, handleParseError(filePath, cur) >>
    ELSE LET data == [TodoListOf[content, filePath] EXCEPT
                         !.sessionId = OrElse(cur, "unknown")]
         IN  << [q \in DOMAIN cache \cup {filePath} |->
                    IF q = filePath THEN data ELSE cache[q]],
                ChangeEvent(IF filePath \in DOMAIN cache THEN "updated"
                            ELSE "created",
                            data.sessionId, <<data>>, FALSE) >>

\* the part of TodoManager.parseTodoFile after its await: <<cache, event>>
parseTodoFile(cache, content, filePath, d, cur) ==
    IF parseFails(content, filePath, d)
    THEN << cache, handleParseError(filePath, cur) >>
    ELSE LET data == TodoListOf[content, filePath]
         IN  << [q \in DOMAIN cache \cup {filePath} |->
                    IF q = filePath THEN data ELSE cache[q]],
                ChangeEvent(IF filePath \in DOMAIN cache THEN "updated"
                            ELSE "created",
                            data.sessionId, <<data>>, FALSE) >>

\* a debounce timeout for p expires: the callback calls parseTodoFile, whose
\* existsSync check fails at once or whose readFile is awaited, and deletes
\* the key
TimerFire(p) ==
    LET started == IF Exists(disk, p)
                   THEN {AwaitingFile(p, "timer", <<>>,
                                      Lowest(FreeSlots))}
                   ELSE {}
    IN  /\ pendingTimeouts[p] > 0
        /\ Exists(disk, p) => Room
        /\ parses' = parses \cup started
        /\ emitted' = IF Exists(disk, p) THEN <<>>
                      ELSE <<handleParseError(p, currentSessionId)>>
        /\ parseDebounceTimers' = parseDebounceTimers \ {p}
        /\ pendingTimeouts' = [pendingTimeouts EXCEPT ![p] = @ - 1]
        /\ staleTimers' = staleTimers \ {p}
        /\ act' = <<"TimerFire", p>>
        /\ todoChanged' = <<>>
        /\ UNCHANGED <<disk, currentSessionId, todoCache, watcherSessionId,
                       fileWatcher, watchedFiles, deadWatches, pendingStats,
                       lastStarted, earlier>>
    /\ UNCHANGED envOps
    /\ trace' = Log(<<Entry("TimerFire", p)>>, emitted')
    /\ UNCHANGED besideTodo

\* readFile reads the file of an awaited parse
ParseRead(r) ==
    /\ r \in parses
    /\ r.content = "unread"
    /\ parses' = (parses \ {r}) \cup {[r EXCEPT !.content = disk[r.filePath]]}
    /\ emitted' = <<>>
    /\ act' = <<"ParseRead", r.filePath>>
    /\ todoChanged' = <<>>
    /\ UNCHANGED <<disk, currentSessionId, todoCache, parseDebounceTimers,
                   pendingTimeouts, watcherSessionId, fileWatcher,
                   watchedFiles, deadWatches, pendingStats, lastStarted,
                   earlier, staleTimers>>
    /\ UNCHANGED envOps
    /\ trace' = Log(<<>>, emitted')
    /\ UNCHANGED besideTodo

\* the await of a parse resumes: the cache is updated and the event emitted,
\* and a loadExistingTodos loop goes on with its next file
ParseFinish(r) ==
    LET done == parseTodoFile(todoCache, r.content, r.filePath, disk,
                              currentSessionId)
        next == LoadFrom(r.rest, disk, currentSessionId)
    IN  /\ r \in parses
        /\ r.content # "unread"
        /\ todoCache' = done[1]
        /\ emitted' = <<done[2]>> \o next[1]
        /\ parses' = (parses \ {r}) \cup LoadParse(next[2], r.slot)
        /\ act' = <<"ParseFinish", r.filePath>>
        /\ todoChanged' = <<>>
        /\ UNCHANGED <<disk, currentSessionId, parseDebounceTimers,
                       pendingTimeouts, watcherSessionId, fileWatcher,
                       watchedFiles, deadWatches, pendingStats, lastStarted,
                       earlier, staleTimers>>
    /\ UNCHANGED envOps
    /\ trace' = Log(<<>>, emitted')
    /\ UNCHANGED besideTodo

Next ==
    \/ \E s \in Sessions : StartSession(s)
    \/ StopSession
    \/ \E s \in Sessions \cup {NoSession} : TodoNotification(s)
    \/ \E s \in Sessions \cup {NoSession} : SessionUpdate(s)
    \/ \E p \in Paths, c \in Contents : WriteFile(p, c)
    \/ \E p \in Paths : DeleteFile(p)
    \/ \E p \in Paths : DeleteFileUnnamed(p)
    \/ \E st \in pendingStats : StatSample(st)
    \/ \E st \in pendingStats : StatCallback(st)
    \/ \E p \in Paths : TimerFire(p)
    \/ \E r \in parses : ParseRead(r)
    \/ \E r \in parses : ParseFinish(r)

Spec == Init /\ [][Next]_vars

\* the same program, run by a test harness that logs
SpecTraced == InitTraced /\ [][Next]_vars

\* TodoManager.refresh up to the first await of loadExistingTodos: the cache
\* is cleared and the files of the session are parsed again
Refresh ==
    LET load == loadExistingTodos(disk, currentSessionId, watcherSessionId)
    IN  /\ load[2] # <<>> => Room
        /\ todoCache' = <<>>
        /\ emitted' = load[1]
        /\ parses' = parses \cup LoadParse(load[2], Lowest(FreeSlots))
        /\ act' = <<"Refresh", "">>
        /\ todoChanged' = <<>>
        /\ UNCHANGED <<disk, currentSessionId, parseDebounceTimers,
                       pendingTimeouts, watcherSessionId, fileWatcher,
                       watchedFiles, deadWatches, pendingStats, lastStarted,
                       earlier, staleTimers>>
        /\ envOps < Budget
        /\ envOps' = envOps + 1
        /\ trace' = Log(<<Entry("Refresh", "")>>, emitted')
        /\ UNCHANGED besideTodo

NextRefreshed == Next \/ Refresh

\* the program run by the logging harness, which also calls refresh()
SpecRefreshed == InitTraced /\ [][NextRefreshed]_vars

(***************************************************************************)
(* HookManager at work on the settings file, which the user and other      *)
(* tools write too.                                                        *)
(***************************************************************************)
\* at most this many entries in a hook array of the file HookManager finds
MaxEntries == 2

\* at most this many HookManager calls and outside writes in a behaviour
MaxHookOps == 3

SeqsUpTo(S, n) == UNION {[1..k -> S] : k \in 0..n}

\* the entries a category may hold before HookManager is first called: a
\* user's hook, a user's hook whose script lies in a directory named hook,
\* and the entry an earlier run of installHooks built, for port 4001
FoundEntries(category) ==
    CASE category = "UserPromptSubmit" ->
           {HookDefinition("", <<"echo">>), HookDefinition("", <<"lint">>),
            claudePilotHooks(getUrl(4001)).UserPromptSubmit[1]}
      [] category = "PostToolUse" ->
           {HookDefinition("Bash", <<"echo">>),
            HookDefinition("Bash", <<"lint">>),
            claudePilotHooks(getUrl(4001)).PostToolUse[1]}
      [] category = "PreToolUse" -> {HookDefinition("Bash", <<"echo">>)}

\* the values settings.hooks may have then
FoundHooks ==
    UNION {{h \in [D -> UNION {SeqsUpTo(FoundEntries(c), MaxEntries) : c \in D}] :
               \A c \in D : h[c] \in SeqsUpTo(FoundEntries(c), MaxEntries)} :
           D \in SUBSET Categories}

\* the settings files HookManager may find
FoundFiles ==
    {AbsentFile, CorruptFile, NullFile, SettingsFile("json", "user", FALSE, <<>>)}
    \cup {SettingsFile("json", "user", TRUE, h) : h \in FoundHooks}

\* the todo engine is not running
TodoAtRest ==
    /\ disk = [p \in Paths |-> Missing]
    /\ Idle
    /\ parseDebounceTimers = {}
    /\ pendingTimeouts = [p \in Paths |-> 0]
    /\ parses = {}
    /\ deadWatches = {}
    /\ pendingStats = {}
    /\ emitted = <<>>
    /\ todoChanged = <<>>
    /\ act = <<"Init", "">>
    /\ earlier = {}
    /\ staleTimers = {}
    /\ envOps = 0
    /\ trace = <<>>

InitHooks ==
    /\ TodoAtRest
    /\ settingsFile \in FoundFiles
    /\ backups = {}
    /\ warnings = 0
    /\ hookAct = <<"Init", 0, "ok">>
    /\ prevHookAct = <<"Init", 0, "ok">>
    /\ before = settingsFile
    /\ before2 = settingsFile
    /\ hookOps = 0
    /\ ServerAtRest
    /\ StoreAtRest
    /\ ParserAtRest
    /\ ExportAtRest

\* the history of a HookManager step
HookStep(name, port, result) ==
    /\ hookOps < MaxHookOps
    /\ hookOps' = hookOps + 1
    /\ hookAct' = <<name, port, result>>
    /\ prevHookAct' = hookAct
    /\ before' = settingsFile
    /\ before2' = before
    /\ UNCHANGED besideHooks

\* ClaudePilotHooks.initialize once the server listens on port:
\* HookManager.initialize, that is installHooks
Install(port, copyOk) ==
    LET done == installHooks(settingsFile, backups, warnings, port, copyOk)
    IN  /\ copyOk \/ settingsFile.kind = "corrupt"
        /\ settingsFile' = done.file
        /\ backups' = done.backups
        /\ warnings' = done.warnings
        /\ HookStep("install", port, done.result)

\* HookManager.uninstall
Uninstall ==
    /\ settingsFile' = uninstall(settingsFile)
    /\ UNCHANGED <<backups, warnings>>
    /\ HookStep("uninstall", 0, "ok")

\* another program leaves bytes in the settings file that JSON.parse throws on
CorruptSettings ==
    /\ settingsFile.kind # "corrupt"
    /\ settingsFile' = CorruptFile
    /\ UNCHANGED <<backups, warnings>>
    /\ HookStep("corrupt", 0, "ok")

NextHooks ==
    \/ \E port \in Ports, copyOk \in BOOLEAN : Install(port, copyOk)
    \/ Uninstall
    \/ CorruptSettings

\* HookManager alone, from each settings file it may find
SpecHooks == InitHooks /\ [][NextHooks]_vars

(***************************************************************************)
(* HookServer: the requests and what handleRequest makes of them.          *)
(***************************************************************************)
Methods == {"POST", "OPTIONS", "GET"}

HookPaths == {"/hook/session", "/hook/todo", "/hook/general"}

\* the pathnames the requests carry; the last one is no route of the switch
Pathnames == HookPaths \cup {"/hook/status"}

\* the request bodies: text that JSON.parse throws on, and the texts of null,
\* of a number, of a PostToolUse payload of TodoWrite, of one of Bash, and of
\* a UserPromptSubmit payload
Bodies == {"malformed", "null", "number", "todoWrite", "bash", "prompt"}

TodoWriteName == <<"T", "o", "d", "o", "W", "r", "i", "t", "e">>

\* JSON.parse(body) of parseBody, for the bodies it does not throw on
BodyJson ==
    [b \in Bodies \ {"malformed"} |->
        CASE b = "null" -> JNull
          [] b = "number" -> JNum(7)
          [] b = "todoWrite" ->
               JObj([tool_name |-> JStr(TodoWriteName),
                     session_id |-> JStr(<<"a", "1">>),
                     tool_input |-> JObj([todos |-> JArr(<<>>)])])
          [] b = "bash" ->
               JObj([tool_name |-> JStr(<<"B", "a", "s", "h">>),
                     session_id |-> JStr(<<"a", "1">>)])
          [] b = "prompt" ->
               JObj([hook_type |-> JStr(<<"U", "P", "S">>),
                     session_id |-> JStr(<<"b", "2">>),
                     prompt |-> JStr(<<"h", "i">>)])]

\* parseBody rejects: JSON.parse throws on the body
parseBodyRejects(b) == b = "malformed"

Requests ==
    {[method |-> "POST", pathname |-> p, body |-> b] :
        p \in Pathnames, b \in Bodies}
    \cup {[method |-> m, pathname |-> p, body |-> b] :
            m \in Methods \ {"POST"}, p \in Pathnames,
            b \in {"malformed", "prompt"}}

\* res.writeHead(status, {"Content-Type": contentType}); res.end(text)
Response(status, contentType, text) ==
    [status |-> status, contentType |-> contentType, text |-> text]

\* JSON.stringify({success: true, suppressOutput: true})
SuccessText == "{\"success\":true,\"suppressOutput\":true}"

Success == Response(200, "application/json", SuccessText)

MethodNotAllowed == Response(405, "text/plain", "Method Not Allowed")

NotFound == Response(404, "text/plain", "Not Found")

InternalServerError == Response(500, "text/plain", "Internal Server Error")

\* the answer to OPTIONS: writeHead(200) and an empty end()
Preflight == Response(200, "", "")

\* data.<field> throws a TypeError
PropertyThrows(data) == data.t \in {"null", "undefined"}

\* this.emit(name, {sessionId: data.session_id, ...}) for the body b
HookEvent(name, b) ==
    [name |-> name, sessionId |-> Get(BodyJson[b], "session_id"), body |-> b]

\* what a handler does with the parsed body b: throws, or writes key of the
\* global state (awaiting the write) and emits events before it answers
Handled(throws, key, events) ==
    [throws |-> throws, key |-> key, events |-> events]

\* HookServer.handleSessionHook
handleSessionHook(b) ==
    IF PropertyThrows(BodyJson[b]) THEN Handled(TRUE, "", <<>>)
    ELSE Handled(FALSE, "currentSession", <<HookEvent("sessionUpdate", b)>>)

\* HookServer.handleTodoHook
handleTodoHook(b) ==
    IF PropertyThrows(BodyJson[b]) THEN Handled(TRUE, "", <<>>)
    ELSE IF Get(BodyJson[b], "tool_name") = JStr(TodoWriteName)
    THEN Handled(FALSE, "latestTodoUpdate", <<HookEvent("todoUpdate", b)>>)
    ELSE Handled(FALSE, "", <<>>)

\* HookServer.handleGeneralHook
handleGeneralHook(b) ==
    IF PropertyThrows(BodyJson[b]) THEN Handled(TRUE, "", <<>>)
    ELSE Handled(FALSE, "", <<HookEvent("hook", b)>>)

\* the switch of handleRequest
Route(pathname, b) ==
    CASE pathname = "/hook/session" -> handleSessionHook(b)
      [] pathname = "/hook/todo" -> handleTodoHook(b)
      [] pathname = "/hook/general" -> handleGeneralHook(b)

(***************************************************************************)
(* HookServer: the listener.                                               *)
(***************************************************************************)
\* at most this many http.Server objects are created in a behaviour
MaxServers == 2

\* at most this many start() and stop() calls in a behaviour
MaxServerOps == 3

\* at most this many requests arrive in a behaviour
MaxRequests == 2

Loopback == "127.0.0.1"

InitServer ==
    TodoAtRest /\ HooksAtRest /\ ServerAtRest /\ StoreAtRest /\ ParserAtRest
    /\ ExportAtRest

\* the fields of the HookServer object and the extension's global state
listenerState == <<httpServers, server, serverPort, isRunning, globalState>>

\* HookServer.getUrl throws "Server is not running"
getUrlThrows == ~isRunning

Listening == {i \in DOMAIN httpServers : httpServers[i].state = "listening"}

\* a start() that does not look at isRunning
startUnguarded ==
    /\ Len(httpServers) < MaxServers
    /\ httpServers' = Append(httpServers,
                             [state |-> "pending", host |-> Loopback, port |-> 0,
                              announced |-> FALSE])
    /\ server' = Len(httpServers) + 1
    /\ srvAct' = <<"start", 0>>
    /\ UNCHANGED <<serverPort, isRunning>>

\* HookServer.start up to its return: the stored port when running, else a
\* promise that waits for the listening event of a new server
start ==
    IF isRunning
    THEN /\ srvAct' = <<"start", serverPort>>
         /\ UNCHANGED <<httpServers, server, serverPort, isRunning>>
    ELSE /\ Len(httpServers) < MaxServers
         /\ httpServers' = Append(httpServers,
                                  [state |-> "pending", host |-> Loopback,
                                   port |-> 0, announced |-> FALSE])
         /\ server' = Len(httpServers) + 1
         /\ srvAct' = <<"start", 0>>
         /\ UNCHANGED <<serverPort, isRunning>>

StartCall ==
    /\ srvOps < MaxServerOps
    /\ srvOps' = srvOps + 1
    /\ start
    /\ UNCHANGED <<inflight, globalState, served>>
    /\ UNCHANGED besideServer

\* a server that waits for it is bound to a free port the system picks and
\* accepts connections from then on; its listening event is queued
Bind(p) ==
    /\ \E i \in DOMAIN httpServers : httpServers[i].state = "pending"
    /\ \A i \in Listening : httpServers[i].port # p
    /\ LET id == CHOOSE i \in DOMAIN httpServers :
                    /\ httpServers[i].state = "pending"
                    /\ \A j \in 1..(i - 1) : httpServers[j].state # "pending"
       IN  httpServers' = [httpServers EXCEPT ![id].state = "listening",
                                              ![id].port = p]
    /\ srvAct' = <<"bound", p>>
    /\ UNCHANGED <<server, serverPort, isRunning, inflight, globalState, served,
                   srvOps>>
    /\ UNCHANGED besideServer

\* the listening event of a bound server, in the order of binding: the
\* callback of listen reads the address of this.server, which a later start()
\* may have replaced by a server that is not bound yet
ListenCallback(id) ==
    /\ httpServers[id].state = "listening" /\ ~httpServers[id].announced
    /\ \A j \in 1..(id - 1) :
          ~(httpServers[j].state = "listening" /\ ~httpServers[j].announced)
    /\ httpServers' = [httpServers EXCEPT ![id].announced = TRUE]
    /\ IF httpServers[server].state = "listening"
       THEN /\ serverPort' = httpServers[server].port
            /\ isRunning' = TRUE
            /\ srvAct' = <<"listening", httpServers[server].port>>
       ELSE /\ srvAct' = <<"rejected", 0>>
            /\ UNCHANGED <<serverPort, isRunning>>
    /\ UNCHANGED <<server, inflight, globalState, served, srvOps>>
    /\ UNCHANGED besideServer

\* a stop() that looks at this.server only
stopWhileServer ==
    IF server = 0
    THEN /\ srvAct' = <<"stop", 0>>
         /\ UNCHANGED httpServers
    ELSE /\ srvAct' = <<"closing", server>>
         /\ httpServers' = [httpServers EXCEPT ![server].state = "closing"]

\* HookServer.stop up to its return: resolved at once when not running, else
\* this.server stops listening and the promise waits for its close event
stop ==
    IF server = 0 \/ ~isRunning
    THEN /\ srvAct' = <<"stop", 0>>
         /\ UNCHANGED httpServers
    ELSE /\ srvAct' = <<"closing", server>>
         /\ httpServers' = [httpServers EXCEPT ![server].state =
                               IF @ = "listening" THEN "closing" ELSE @]

StopCall ==
    /\ srvOps < MaxServerOps
    /\ srvOps' = srvOps + 1
    /\ stop
    /\ UNCHANGED <<server, serverPort, isRunning, inflight, globalState, served>>
    /\ UNCHANGED besideServer

\* the close event of a server, once the requests in flight are answered: the
\* callback stop() gave to close
CloseCallback(id) ==
    /\ httpServers[id].state = "closing"
    /\ inflight = {}
    /\ httpServers' = [httpServers EXCEPT ![id].state = "closed"]
    /\ isRunning' = FALSE
    /\ serverPort' = 0
    /\ srvAct' = <<"closed", id>>
    /\ UNCHANGED <<server, inflight, globalState, served, srvOps>>
    /\ UNCHANGED besideServer

\* the log of an answered request
Served(req, response, events) ==
    served' = Append(served, [req |-> req, response |-> response,
                              events |-> events])

\* handleRequest up to its first await: a request arrives at a listening
\* server
RequestArrives(req) ==
    /\ Listening # {}
    /\ Len(served) + Cardinality(inflight) < MaxRequests
    /\ IF req.method = "OPTIONS"
       THEN Served(req, Preflight, <<>>) /\ UNCHANGED inflight
       ELSE IF req.method # "POST"
       THEN Served(req, MethodNotAllowed, <<>>) /\ UNCHANGED inflight
       ELSE /\ inflight' = inflight \cup
                   {[id |-> Len(served) + Cardinality(inflight) + 1,
                     req |-> req, phase |-> "body", events |-> <<>>]}
            /\ UNCHANGED served
    /\ srvAct' = <<"request", 0>>
    /\ UNCHANGED <<httpServers, server, serverPort, isRunning, globalState,
                   srvOps>>
    /\ UNCHANGED besideServer

\* a handleRequest that looks at the pathname before it reads the body
handlePostRouteFirst(req) ==
    IF req.pathname \notin HookPaths THEN Handled(FALSE, "", <<>>)
    ELSE IF parseBodyRejects(req.body) THEN Handled(TRUE, "", <<>>)
    ELSE Route(req.pathname, req.body)

\* the try block of handleRequest: parseBody, then the switch; a rejected
\* parseBody counts as a throw, and the default case does nothing
handlePost(req) ==
    IF parseBodyRejects(req.body) THEN Handled(TRUE, "", <<>>)
    ELSE IF req.pathname \notin HookPaths THEN Handled(FALSE, "", <<>>)
    ELSE Route(req.pathname, req.body)

\* the answer the try block or its catch writes
AnswerOf(req, h) ==
    IF h.throws THEN InternalServerError
    ELSE IF req.pathname \notin HookPaths THEN NotFound
    ELSE Success

\* the end event of a request's body: parseBody settles and handleRequest
\* runs on to its next await or to its answer
BodyEnd(r) ==
    /\ r.phase = "body"
    /\ LET h == handlePost(r.req)
       IN  IF ~h.throws /\ h.key # ""
           THEN /\ globalState' = [globalState EXCEPT ![h.key] = r.req.body]
                /\ inflight' = (inflight \ {r}) \cup
                       {[r EXCEPT !.phase = "update", !.events = h.events]}
                /\ UNCHANGED served
           ELSE /\ Served(r.req, AnswerOf(r.req, h), h.events)
                /\ inflight' = inflight \ {r}
                /\ UNCHANGED globalState
    /\ srvAct' = <<"body", r.id>>
    /\ UNCHANGED <<httpServers, server, serverPort, isRunning, srvOps>>
    /\ UNCHANGED besideServer

\* globalState.update settles: the handler emits its event and answers
UpdateDone(r) ==
    /\ r.phase = "update"
    /\ Served(r.req, Success, r.events)
    /\ inflight' = inflight \ {r}
    /\ srvAct' = <<"update", r.id>>
    /\ UNCHANGED <<httpServers, server, serverPort, isRunning, globalState,
                   srvOps>>
    /\ UNCHANGED besideServer

NextServer ==
    \/ StartCall
    \/ \E p \in Ports : Bind(p)
    \/ \E id \in DOMAIN httpServers : ListenCallback(id)
    \/ StopCall
    \/ \E id \in DOMAIN httpServers : CloseCallback(id)
    \/ \E req \in Requests : RequestArrives(req)
    \/ \E r \in inflight : BodyEnd(r)
    \/ \E r \in inflight : UpdateDone(r)

\* HookServer alone, from its construction
SpecServer == InitServer /\ [][NextServer]_vars

(***************************************************************************)
(* SessionManager.  Its calls are awaited one after the other, so each is  *)
(* one step.  The clock counts milliseconds from the construction.         *)
(***************************************************************************)
MAX_HISTORY_SIZE == 50

\* 24 * 60 * 60 * 1000 milliseconds
DayMs == 24 * 60 * 60 * 1000

\* the values of daysToKeep
Days == {0, 1, 2}

\* the amounts of time that pass between two calls
Elapses == {1, DayMs}

\* at most this many periods of time pass in a behaviour
MaxElapses == 2

\* at most this many SessionManager calls in a behaviour
MaxStoreOps == 3

Workspaces == {"", "/w"}

\* what getSessionState returns when the global state has no entry
EmptyState == [lastSessionId |-> NoSession, sessionHistory |-> <<>>]

\* SessionManager.getSessionState
getSessionState(stored) == stored

\* SessionManager.getLastSessionId
getLastSessionId(stored) == getSessionState(stored).lastSessionId

HistoryEntry(id, timestamp, workspacePath) ==
    [id |-> id, timestamp |-> timestamp, workspacePath |-> workspacePath]

\* a saveSession that appends and keeps the first MAX_HISTORY_SIZE entries
saveSessionAppending(stored, sessionId, workspacePath, clock) ==
    LET state == getSessionState(stored)
        added == Append(state.sessionHistory,
                        HistoryEntry(sessionId, clock, workspacePath))
    IN  [lastSessionId |-> sessionId,
         sessionHistory |->
             IF Len(added) > MAX_HISTORY_SIZE
             THEN SubSeq(added, 1, MAX_HISTORY_SIZE) ELSE added]

\* SessionManager.saveSession at the time clock
saveSession(stored, sessionId, workspacePath, clock) ==
    LET state == getSessionState(stored)
        added == <<HistoryEntry(sessionId, clock, workspacePath)>>
                     \o state.sessionHistory
    IN  [lastSessionId |-> sessionId,
         sessionHistory |->
             IF Len(added) > MAX_HISTORY_SIZE
             THEN SubSeq(added, 1, MAX_HISTORY_SIZE) ELSE added]

\* SessionManager.clearHistory
clearHistory == EmptyState

\* a pruneOldSessions that leaves the pointer as it is
pruneOldSessionsKeepingPointer(stored, daysToKeep, clock) ==
    LET state == getSessionState(stored)
        cutoffTime == clock - daysToKeep * DayMs
    IN  [lastSessionId |-> state.lastSessionId,
         sessionHistory |->
             SelectSeq(state.sessionHistory,
                       LAMBDA entry : entry.timestamp > cutoffTime)]

\* SessionManager.pruneOldSessions at the time clock
pruneOldSessions(stored, daysToKeep, clock) ==
    LET state == getSessionState(stored)
        cutoffTime == clock - daysToKeep * DayMs
        kept == SelectSeq(state.sessionHistory,
                          LAMBDA entry : entry.timestamp > cutoffTime)
    IN  [lastSessionId |->
             IF /\ state.lastSessionId # NoSession
                /\ ~\E i \in DOMAIN kept : kept[i].id = state.lastSessionId
             THEN (IF kept # <<>> THEN kept[1].id ELSE NoSession)
             ELSE state.lastSessionId,
         sessionHistory |-> kept]

\* the history an earlier run of the extension left: n sessions, the k-th
\* newest saved k milliseconds before the construction
Earlier(n) ==
    [k \in 1..n |->
        HistoryEntry(IF k % 2 = 1 THEN "a1" ELSE "b2", 0 - k, "/w")]

\* the states the global state may hold at the construction
FoundStates ==
    {EmptyState}
    \cup {[lastSessionId |-> Earlier(n)[1].id, sessionHistory |-> Earlier(n)] :
            n \in {1, MAX_HISTORY_SIZE - 1, MAX_HISTORY_SIZE}}

InitStore ==
    /\ TodoAtRest
    /\ HooksAtRest
    /\ ServerAtRest
    /\ ParserAtRest
    /\ ExportAtRest
    /\ sessionState \in FoundStates
    /\ now = 0
    /\ elapsed = 0
    /\ storeAct = <<"Init", "", 0, 0>>
    /\ storeBefore = sessionState
    /\ storeOps = 0

\* the history of a SessionManager call
StoreStep(name, id, days) ==
    /\ storeOps < MaxStoreOps
    /\ storeOps' = storeOps + 1
    /\ storeAct' = <<name, id, days, now>>
    /\ storeBefore' = sessionState
    /\ UNCHANGED <<now, elapsed>>
    /\ UNCHANGED besideStore

SaveSession(sessionId, workspacePath) ==
    /\ sessionState' = saveSession(sessionState, sessionId, workspacePath, now)
    /\ StoreStep("saveSession", sessionId, 0)

PruneOldSessions(daysToKeep) ==
    /\ sessionState' = pruneOldSessions(sessionState, daysToKeep, now)
    /\ StoreStep("pruneOldSessions", "", daysToKeep)

ClearHistory ==
    /\ sessionState' = clearHistory
    /\ StoreStep("clearHistory", "", 0)

\* time passes between two calls
Elapse(ms) ==
    /\ elapsed < MaxElapses
    /\ elapsed' = elapsed + 1
    /\ now' = now + ms
    /\ UNCHANGED <<sessionState, storeAct, storeBefore, storeOps>>
    /\ UNCHANGED besideStore

NextStore ==
    \/ \E sessionId \in Sessions, workspacePath \in Workspaces :
          SaveSession(sessionId, workspacePath)
    \/ \E daysToKeep \in Days : PruneOldSessions(daysToKeep)
    \/ ClearHistory
    \/ \E ms \in Elapses : Elapse(ms)

\* SessionManager alone, from each state it may find
SpecStore == InitStore /\ [][NextStore]_vars

(***************************************************************************)
(* TodoParser.parseTodoFile on one file.                                   *)
(***************************************************************************)
\* the values a file's JSON may hold below its top level
Atoms == {JNull, JNum(0), JNum(7), JStr(<<>>), JStr(<<"x">>)}

ItemLists ==
    {<<>>, <<JStr(<<"x">>)>>, <<JObj([content |-> JStr(<<"x">>)])>>,
     <<JObj([text |-> JStr(<<"x">>)])>>}

Lists == {JArr(items) : items \in ItemLists}

FieldNames == {"todos", "items", "content", "description", "text", "title"}

\* the documents: null, numbers, strings, lists, the empty object and the
\* objects of one field
Documents ==
    Atoms \cup Lists \cup {JObj(<<>>)}
    \cup {JObj([f \in {name} |-> value]) :
            name \in FieldNames, value \in Atoms \cup Lists}

\* the files: none at the path, bytes JSON.parse throws on, or the text of a
\* document
Files ==
    {[kind |-> "missing", data |-> Undefined],
     [kind |-> "malformed", data |-> Undefined]}
    \cup {[kind |-> "json", data |-> d] : d \in Documents}

\* a ParseResult
Failure(error) == [success |-> FALSE, error |-> error, data |-> <<>>]

Succeeded(todoList) == [success |-> TRUE, error |-> "", data |-> todoList]

\* TodoParser.parseTodoFile of the file at filePath
TodoParser_parseTodoFile(file, filePath) ==
    IF file.kind = "missing" THEN Failure("Todo file not found")
    ELSE IF file.kind = "malformed" THEN Failure("SyntaxError")
    ELSE IF TransformThrows(file.data) THEN Failure("TypeError")
    ELSE Succeeded(validateAndTransform(file.data, filePath))

InitParser ==
    /\ TodoAtRest
    /\ HooksAtRest
    /\ ServerAtRest
    /\ StoreAtRest
    /\ ExportAtRest
    /\ parsedFile \in Files
    /\ parsedPath \in Paths
    /\ parseResult = Failure("")
    /\ parseCalls = 0

\* a caller parses the file
ParseFile ==
    /\ parseCalls = 0
    /\ parseCalls' = 1
    /\ parseResult' = TodoParser_parseTodoFile(parsedFile, Chars[parsedPath])
    /\ UNCHANGED <<parsedFile, parsedPath>>
    /\ UNCHANGED besideParser

NextParser == ParseFile

\* TodoParser alone, on each file
SpecParser == InitParser /\ [][NextParser]_vars

(***************************************************************************)
(* TodoManager: the exports.  An export returns lines.join('\n'); the      *)
(* model keeps the lines, each as the pieces its template joins.           *)
(***************************************************************************)
\* at most this many lists in the cache the exports are called on
MaxExportLists == 2

\* at most this many todos in that cache
MaxExportItems == 3

StatusValues == {"pending", "in_progress", "completed"}

PriorityValues == {"high", "medium", "low"}

\* the contents of the todos of that cache, in lexical order
ExportContents == <<JStr(<<"x">>), JStr(<<"y">>)>>

TodoShapes ==
    [content : {ExportContents[i] : i \in DOMAIN ExportContents},
     status : StatusValues, priority : PriorityValues]

\* what the parser returns for the empty list in the file at DirOrder[k]
EmptyLists ==
    [k \in DOMAIN DirOrder |->
        validateAndTransform(JArr(<<>>), Chars[DirOrder[k]])]

\* the lists of n todos the parser returns for the file at DirOrder[k]
ListsOf(k, n) ==
    {[EmptyLists[k]
        EXCEPT !.todos = [i \in 1..n |->
                             [id |-> StringOfNat(i - 1),
                              content |-> shape[i].content,
                              status |-> shape[i].status,
                              priority |-> shape[i].priority]]] :
        shape \in [1..n -> TodoShapes]}

RECURSIVE SumOf(_)
SumOf(sizes) == IF sizes = <<>> THEN 0 ELSE Head(sizes) + SumOf(Tail(sizes))

\* the numbers of todos of the lists of a cache, in insertion order: a list
\* per file at most
ExportSizes ==
    {sizes \in UNION {[1..k -> 0..MaxExportItems] : k \in 0..MaxExportLists} :
        Len(sizes) <= Len(DirOrder) /\ SumOf(sizes) <= MaxExportItems}

\* getCurrentTodos() of the caches whose lists, of the files from DirOrder[k]
\* on, have these numbers of todos
RECURSIVE CachesOf(_, _)
CachesOf(k, sizes) ==
    IF sizes = <<>> THEN {<<>>}
    ELSE {<<l>> \o rest : l \in ListsOf(k, Head(sizes)),
                          rest \in CachesOf(k + 1, Tail(sizes))}

Line(text, content, mark) == [text |-> text, content |-> content, mark |-> mark]

Text(text) == Line(text, <<>>, "")

\* the mark of a high priority: a space and the warning sign
HighPriorityMark == " (warning sign)"

\* a byStatus that puts each todo in front of its group
byStatusUnshift(todos, status) ==
    LET group == SelectSeq(todos, LAMBDA todo : todo.status = status)
    IN  [i \in 1..Len(group) |-> group[Len(group) + 1 - i]]

\* byStatus[status] of exportAsMarkdown: the todos of the status, pushed in the
\* order of the list
byStatus(todos, status) ==
    SelectSeq(todos, LAMBDA todo : todo.status = status)

\* a status group of exportAsMarkdown: nothing when empty, else its heading, an
\* empty line, a line per todo and an empty line
MarkdownGroup(heading, box, group, marks) ==
    IF group = <<>> THEN <<>>
    ELSE <<Text(heading), Text("")>>
         \o [i \in 1..Len(group) |->
                Line(box, group[i].content.v,
                     IF marks /\ group[i].priority = "high"
                     THEN HighPriorityMark ELSE "")]
         \o <<Text("")>>

MarkdownOfList(todoList) ==
    <<Line("## Session: ", todoList.sessionId, ""), Text("")>>
    \o MarkdownGroup("### Pending", "- [ ] ",
                     byStatus(todoList.todos, "pending"), TRUE)
    \o MarkdownGroup("### In Progress", "- [~] ",
                     byStatus(todoList.todos, "in_progress"), TRUE)
    \o MarkdownGroup("### Completed", "- [x] ",
                     byStatus(todoList.todos, "completed"), FALSE)

RECURSIVE MarkdownOfLists(_)
MarkdownOfLists(todos) ==
    IF todos = <<>> THEN <<>>
    ELSE MarkdownOfList(Head(todos)) \o MarkdownOfLists(Tail(todos))

\* TodoManager.exportAsMarkdown
exportAsMarkdown(todos) ==
    <<Text("# Claude Pilot Todos"), Text("")>> \o MarkdownOfLists(todos)

\* todo.status.replace('_', ' ').toUpperCase()
StatusLabel(status) ==
    CASE status = "pending" -> "PENDING"
      [] status = "in_progress" -> "IN PROGRESS"
      [] status = "completed" -> "COMPLETED"

\* todo.priority.toUpperCase()
PriorityLabel(priority) ==
    CASE priority = "high" -> "HIGH"
      [] priority = "medium" -> "MEDIUM"
      [] priority = "low" -> "LOW"

PlainTextLine(todo) ==
    Line("[" \o StatusLabel(todo.status) \o "] ["
             \o PriorityLabel(todo.priority) \o "] ", todo.content.v, "")

PlainTextOfList(todoList) ==
    <<Line("Session: ", todoList.sessionId, ""),
      Text("----------------------------------------"), Text("")>>
    \o [i \in 1..Len(todoList.todos) |-> PlainTextLine(todoList.todos[i])]
    \o <<Text("")>>

RECURSIVE PlainTextOfLists(_)
PlainTextOfLists(todos) ==
    IF todos = <<>> THEN <<>>
    ELSE PlainTextOfList(Head(todos)) \o PlainTextOfLists(Tail(todos))

\* TodoManager.exportAsPlainText
exportAsPlainText(todos) ==
    <<Text("Claude Pilot Todos"), Text("=================="), Text("")>>
    \o PlainTextOfLists(todos)

InitExport ==
    /\ TodoAtRest
    /\ HooksAtRest
    /\ ServerAtRest
    /\ StoreAtRest
    /\ ParserAtRest
    /\ \E sizes \in ExportSizes : exportCache \in CachesOf(1, sizes)
    /\ markdown = <<>>
    /\ plainText = <<>>
    /\ exportCalls = 0

\* a caller exports the cache as Markdown
ExportAsMarkdown ==
    /\ markdown = <<>>
    /\ markdown' = exportAsMarkdown(exportCache)
    /\ exportCalls' = exportCalls + 1
    /\ UNCHANGED <<exportCache, plainText>>
    /\ UNCHANGED besideExport

\* a caller exports the cache as plain text
ExportAsPlainText ==
    /\ plainText = <<>>
    /\ plainText' = exportAsPlainText(exportCache)
    /\ exportCalls' = exportCalls + 1
    /\ UNCHANGED <<exportCache, markdown>>
    /\ UNCHANGED besideExport

NextExport == ExportAsMarkdown \/ ExportAsPlainText

\* the exports alone, on each cache
SpecExport == InitExport /\ [][NextExport]_vars

(***************************************************************************)
(* Statistics.                                                             *)
(***************************************************************************)
\* the items of the cached lists, one list after the other
RECURSIVE Todos(_, _)
Todos(cache, files) ==
    IF files = <<>> THEN <<>>
    ELSE (IF Head(files) \in DOMAIN cache THEN cache[Head(files)].todos
          ELSE <<>>) \o Todos(cache, Tail(files))

\* TodoManager.getTodoStats
getTodoStats(cache) ==
    LET all == Todos(cache, DirOrder)
        N(field, value) == Cardinality({i \in DOMAIN all : all[i][field] = value})
    IN  [total |-> Len(all),
         pending |-> N("status", "pending"),
         inProgress |-> N("status", "in_progress"),
         completed |-> N("status", "completed"),
         highPriority |-> N("priority", "high"),
         mediumPriority |-> N("priority", "medium"),
         lowPriority |-> N("priority", "low"),
         fileCount |-> Cardinality(DOMAIN cache)]

\* TodoParser.getTodoStats
TodoParser_getTodoStats(todoList) ==
    LET N(field, value) ==
            Cardinality({i \in DOMAIN todoList.todos :
                            todoList.todos[i][field] = value})
    IN  [total |-> Len(todoList.todos),
         pending |-> N("status", "pending"),
         inProgress |-> N("status", "in_progress"),
         completed |-> N("status", "completed"),
         highPriority |-> N("priority", "high")]

\* nothing is outstanding: no stat, no parse, no debounce timeout
Quiescent ==
    /\ parses = {}
    /\ pendingStats = {}
    /\ \A p \in Paths : pendingTimeouts[p] = 0

(***************************************************************************)
(* Properties.                                                             *)
(***************************************************************************)

\* C1 (session isolation): once startSession(B) has followed startSession(A)
\* with A # B, the cache holds no TodoList of session A, however the timers,
\* parses and stat callbacks begun during A interleave with the switch.
SessionIsolation ==
    \A p \in DOMAIN todoCache :
        ~(todoCache[p].sessionId \in earlier /\ todoCache[p].sessionId # lastStarted)

\* C4: after stopSession and until the next startSession the cache is empty,
\* no debounce timer is pending and no ChangeEvent is emitted; work begun
\* before the stop that completes after it leaves no trace.
StoppedIsSilent ==
    (currentSessionId = NoSession /\ lastStarted # NoSession) =>
        /\ todoCache = <<>>
        /\ parseDebounceTimers = {}
        /\ emitted = <<>>

\* C7: startSession cancels every debounce timer armed before the call, so
\* no timeout scheduled before the latest startSession is still to fire.
StartCancelsTimers == staleTimers = {}

\* the harness, with a session tracked from the start, has so far done n
\* writes of p and nothing else, each before a debounce window of p elapsed
Burst(p, n) ==
    /\ Len(trace) >= n + 1
    /\ trace[1].arg[1] # NoSession
    /\ \A i \in 2..(n + 1) : trace[i].op = "WriteFile" /\ trace[i].arg[1] = p
    /\ \A i \in (n + 2)..Len(trace) : trace[i].op \in {"TimerFire", "emit"}

\* C2 (debounce idempotence): a path has at most one timeout scheduled, the
\* one its key in parseDebounceTimers stands for; so n >= 1 writes of one
\* path, each before the window of the one before has elapsed, lead to one
\* expiry of the path's timer, hence one parse, and to one ChangeEvent, which
\* follows that expiry; once nothing is outstanding both have happened.
DebounceOnce ==
    \A p \in Paths :
        /\ pendingTimeouts[p] = IF p \in parseDebounceTimers THEN 1 ELSE 0
        /\ \A n \in 1..MaxTracedOps :
              Burst(p, n) =>
                  /\ Len(trace) <= n + 3
                  /\ Len(trace) >= n + 2 => trace[n + 2] = Entry("TimerFire", p)
                  /\ Len(trace) = n + 3 => trace[n + 3].op = "emit"
                  /\ Quiescent => Len(trace) = n + 3

\* two writes of a watched file, then one expiry and one event
DebounceOnceWitness ==
    \E p \in Paths :
        /\ Burst(p, 2)
        /\ trace[1].arg[2][p] # Missing
        /\ Quiescent
        /\ Len(trace) = 5
        /\ trace[5].op = "emit"

\* C3 (deletion immediacy): a cached path whose file is gone is one whose
\* deletion the watcher is processing (its stat is outstanding); when the
\* stat calls back the entry goes and one deleted event is emitted, so that
\* getTodoStats never goes on counting the items of a deleted file.
DeletionImmediate ==
    \A p \in DOMAIN todoCache :
        ~Exists(disk, p) => \E st \in pendingStats : st.filePath = p

\* C9: the error event of a failed parse of path P carries extractSessionId(P),
\* or the active session id when that yields nothing.
ParseErrorSession ==
    (/\ act[1] \in {"TimerFire", "ParseFinish"}
     /\ emitted # <<>>
     /\ emitted[1].error) =>
        emitted[1].sessionId = OrElse(SessionIdOf[act[2]], currentSessionId)

\* the raw status values the parser is tried on
RawStatuses ==
    {Pending, Completed, JStr(<<"i", "n", "_">> \o Progress),
     JStr(<<"D", "O", "N", "E">>), JStr(<<"A", "c", "t", "i", "v", "e">>),
     JStr(Finish \o <<"e", "d">>), JStr(<<"x">>), JStr(<<>>), JNum(1), JNull}

\* the items the parser is tried on: a string, null, and objects whose
\* status or state is one of RawStatuses
RawItemSet ==
    {JStr(<<"x">>), JNull}
        \cup {JObj([content |-> JStr(<<"x">>), status |-> st]) : st \in RawStatuses}
        \cup {JObj([text |-> JStr(<<"x">>), state |-> st]) : st \in RawStatuses}


\* every item parseTodoItem returns has one of the three statuses
ParserStatusesClosed ==
    \A item \in RawItemSet :
        ~ItemThrows(item) => parseTodoItem(item, 0).status \in StatusValues

Closed(stats) == stats.pending + stats.inProgress + stats.completed = stats.total

\* C8 (stats closure): getTodoStats of the cache has pending + inProgress +
\* completed = total, and so has the statistics of each cached list alone,
\* every item of the parser having one of the three statuses.
StatsClosure ==
    /\ ParserStatusesClosed
    /\ Closed(getTodoStats(todoCache))
    /\ \A p \in DOMAIN todoCache : Closed(TodoParser_getTodoStats(todoCache[p]))

\* a cache with a pending and a completed item
StatsClosureWitness ==
    /\ getTodoStats(todoCache).pending >= 1
    /\ getTodoStats(todoCache).completed >= 1
    /\ getTodoStats(todoCache).fileCount >= 1

\* every cached list is what parsing some content of its file returns
CacheIsParsed(cache) ==
    \A p \in DOMAIN cache :
        \E c \in Contents :
            <<c, p>> \in DOMAIN TodoListOf /\ cache[p] = TodoListOf[c, p]

\* C10 (a todoUpdate is a hint): handling it leaves the cache as it was, so
\* every cached list stays the parse of its file; the re-scan it starts
\* parses the files of the active session, in directory order, and starts
\* only when the notification names the active session.
HintOnly ==
    [][/\ CacheIsParsed(todoCache')
       /\ act'[1] = "TodoNotification" =>
            /\ todoCache' = todoCache
            /\ \A r \in parses' \ parses :
                  /\ act'[2] = currentSessionId
                  /\ currentSessionId # NoSession
                  /\ r.origin = "load"
                  /\ <<r.filePath>> \o r.rest = SessionFiles(disk, currentSessionId)
            /\ act'[2] # currentSessionId => parses' = parses]_vars

\* a notification naming the active session, with lists cached, has started
\* the re-scan
HintOnlyWitness ==
    /\ act = <<"TodoNotification", currentSessionId>>
    /\ currentSessionId # NoSession
    /\ todoCache # <<>>
    /\ \E r \in parses : r.origin = "load" /\ r.content = "unread"

\* the ChangeEvents the harness has received, in order
Received ==
    LET at == SelectSeq(trace, LAMBDA e : e.op = "emit")
    IN  [i \in 1..Len(at) |-> at[i].arg]

\* the end-to-end run for p: a session tracked, none of its files on disk, p
\* written with two pending items and rewritten within the window with one
\* of them completed, and nothing outstanding any more
EndToEnd(p) ==
    /\ Burst(p, 2)
    /\ SessionFiles(trace[1].arg[2], trace[1].arg[1]) = <<>>
    /\ trace[2].arg[2] = "twoPending"
    /\ trace[3].arg[2] = "oneCompleted"
    /\ Quiescent

\* what the end-to-end run leaves, but for the kind of its one event
EndToEndResult(p, kind) ==
    /\ Len(Received) = 1
    /\ Received[1].type = kind
    /\ ~Received[1].error
    /\ Received[1].todoList = <<TodoListOf["oneCompleted", p]>>
    /\ TodoParser_getTodoStats(Received[1].todoList[1]).pending = 1
    /\ TodoParser_getTodoStats(Received[1].todoList[1]).completed = 1
    /\ getTodoStats(todoCache).total = 2
    /\ getTodoStats(todoCache).pending = 1
    /\ getTodoStats(todoCache).completed = 1
    /\ getTodoStats(todoCache).inProgress = 0

\* C5 as stated (end to end): the run emits exactly one ChangeEvent, of kind
\* updated, holding the second content, and getTodoStats returns total 2,
\* pending 1, completed 1, inProgress 0.
EndToEndUpdated ==
    \A p \in Paths : EndToEnd(p) => EndToEndResult(p, "updated")

\* C5 as the code has it, for a session tracked with nothing outstanding:
\* the one event is of kind created, the path not having been cached before;
\* the payload and the statistics are as stated.
EndToEndCreated ==
    \A p \in Paths : EndToEnd(p) => EndToEndResult(p, "created")

\* the end-to-end run has ended
EndToEndWitness ==
    \E p \in Paths : EndToEnd(p) /\ Received # <<>> /\ Received[1].type = "created"

\* the harness has done one thing, of the given name, and nothing is
\* outstanding any more
OneOp(name) ==
    /\ Len(trace) >= 2
    /\ trace[2].op = name
    /\ \A i \in 3..Len(trace) : trace[i].op \in {"TimerFire", "emit"}
    /\ Quiescent

\* the events of the given kind among those received
OfKind(kind) == SelectSeq(Received, LAMBDA e : e.type = kind)

SessionUpdateSwitches ==
    [][\A s \in Sessions \cup {NoSession} :
          (act' = <<"SessionUpdate", s>> /\ envOps' = envOps + 1) =>
             /\ (currentSessionId' # currentSessionId) <=>
                    (s # NoSession /\ s # currentSessionId)
             /\ IF s # NoSession /\ s # currentSessionId
                THEN /\ currentSessionId' = s
                     /\ lastStarted' = s
                     /\ watcherSessionId' = s
                     /\ fileWatcher' = s
                     /\ todoCache' = <<>>
                ELSE /\ todoCache' = todoCache
                     /\ parseDebounceTimers' = parseDebounceTimers
                     /\ pendingTimeouts' = pendingTimeouts
                     /\ currentSessionId' = currentSessionId]_vars

\* the first operation was a sessionUpdate for b2 received while a1 was
\* tracked
SessionUpdateSwitchesWitness ==
    /\ act = <<"SessionUpdate", "b2">>
    /\ envOps = 1
    /\ currentSessionId = "b2"
    /\ earlier = {"a1"}

\* the harness tracked a session that had cached p, deleted p, re-created it
\* as its i-th log entry with a parseable content, did nothing else, and
\* nothing is outstanding any more
Recreated(p, i) ==
    /\ i \in 3..Len(trace)
    /\ trace[1].arg[1] # NoSession
    /\ IsSessionFile[p, trace[1].arg[1]]
    /\ Exists(trace[1].arg[2], p)
    /\ trace[2] = Entry("DeleteFile", p)
    /\ trace[i].op = "WriteFile"
    /\ trace[i].arg[1] = p
    /\ trace[i].arg[2] \notin {Missing, "malformed"}
    /\ envOps = 2
    /\ Quiescent

\* C12 (deleted then re-created): when a cached path has been deleted and
\* re-created, then once the directory notifications, their stat callbacks,
\* the timers and the parses are through, whatever their interleaving, the
\* cache holds the parse of the re-created file and a created ChangeEvent
\* has been emitted for it after the re-creation.
RecreatedIsCached ==
    \A p \in Paths : \A i \in 1..Len(trace) : Recreated(p, i) =>
        /\ p \in DOMAIN todoCache
        /\ todoCache[p] = TodoListOf[trace[i].arg[2], p]
        /\ \E j \in (i + 1)..Len(trace) :
              /\ trace[j].op = "emit"
              /\ trace[j].arg.type = "created"
              /\ trace[j].arg.todoList = <<todoCache[p]>>

\* the last thing the harness did was to deliver a todoUpdate for the active
\* session, and the re-scan it started is through with nothing outstanding
Rescanned ==
    /\ currentSessionId # NoSession
    /\ \E i \in 2..Len(trace) :
          /\ trace[i] = Entry("TodoNotification", currentSessionId)
          /\ \A j \in (i + 1)..Len(trace) : trace[j].op \in {"TimerFire", "emit"}
    /\ Quiescent

\* the files on disk that match the active session and parse
ParseableSessionFiles ==
    {p \in Range(SessionFiles(disk, currentSessionId)) :
        ~parseFails(disk[p], p, disk)}

\* C13 (self-healing re-scan): once the re-scan started by a todoUpdate for
\* the active session is through, with no file change since the todoUpdate,
\* the cache holds exactly the parseable files on disk that match the active
\* session, each with the parse of its content: a file whose deletion went
\* unnoticed is no longer cached.
RescanHeals ==
    Rescanned =>
        /\ DOMAIN todoCache = ParseableSessionFiles
        /\ \A p \in DOMAIN todoCache : todoCache[p] = TodoListOf[disk[p], p]

\* C14 (session id from the file name): in every reachable state the entry
\* cached under key p has filePath p and the sessionId validateAndTransform
\* derives from p's name alone (extractSessionId(p), "unknown" when it finds
\* none), no two entries share a filePath, and no step changes the sessionId
\* of an entry that stays cached, whatever was re-parsed.
SessionIdFromName ==
    /\ [](\A p \in DOMAIN todoCache :
            /\ todoCache[p].filePath = p
            /\ todoCache[p].sessionId = OrElse(SessionIdOf[p], "unknown")
            /\ \A q \in DOMAIN todoCache :
                  todoCache[q].filePath = todoCache[p].filePath => q = p)
    /\ [][\A p \in DOMAIN todoCache \cap DOMAIN todoCache' :
            todoCache'[p].sessionId = todoCache[p].sessionId]_vars

\* a cached path has just been re-parsed after its content changed
SessionIdFromNameWitness ==
    \E p \in DOMAIN todoCache :
        /\ act = <<"ParseFinish", p>>
        /\ emitted # <<>>
        /\ emitted[1].type = "updated"
        /\ ~emitted[1].error
        /\ todoCache[p] = TodoListOf["oneCompleted", p]
        /\ todoCache[p].sessionId = OrElse(SessionIdOf[p], "unknown")

\* installHooks has just returned for the given port
Installed(port) == hookAct = <<"install", port, "ok">>

\* the entries of the array that installHooks builds for some port
BuiltIn(hooks, category) ==
    {i \in DOMAIN ArrayOf(hooks, category) :
        \E q \in Ports :
            hooks[category][i] = claudePilotHooks(getUrl(q))[category][1]}

\* C15 (merge idempotence): when installHooks has run twice in a row with
\* the same listener address, the hook arrays after the second run are those
\* after the first, and each of the two categories holds the entry built for
\* that address once, whatever the settings document held before.
MergeIdempotent ==
    \A port \in Ports : (Installed(port) /\ prevHookAct = hookAct) =>
        /\ settingsFile.hooks = before.hooks
        /\ \A c \in {"UserPromptSubmit", "PostToolUse"} :
              Cardinality({i \in DOMAIN ArrayOf(settingsFile.hooks, c) :
                  settingsFile.hooks[c][i] =
                      claudePilotHooks(getUrl(port))[c][1]}) = 1

\* installHooks has run twice for port 4002 on a document that held two
\* entries in each of the two categories
MergeIdempotentWitness ==
    /\ Installed(4002)
    /\ prevHookAct = hookAct
    /\ before2.kind = "json"
    /\ Len(ArrayOf(before2.hooks, "UserPromptSubmit")) = 2
    /\ Len(ArrayOf(before2.hooks, "PostToolUse")) = 2

\* the commands that contain the listener's address, whatever the port
HasListenerAddress == CommandIncludes(ListenerHost)

\* the entries of the array none of whose commands has the property
Others(hooks, category, has) ==
    SelectSeq(ArrayOf(hooks, category), LAMBDA hookDef : ~SomeCommand(hookDef, has))

\* C16 (other entries preserved): when installHooks has returned, every
\* category of the document holds the entries it held before whose commands
\* do not contain the listener's address, unchanged and in their order.
InstallPreserves ==
    \A port \in Ports : Installed(port) =>
        \A c \in Categories :
            Others(settingsFile.hooks, c, HasListenerAddress) =
                Others(before.hooks, c, HasListenerAddress)

\* C17 (one entry, latest address): whenever installHooks has returned,
\* after whatever installations with whatever ports, each of UserPromptSubmit
\* and PostToolUse holds exactly one entry built by installHooks, and it is
\* the one built for the port of this latest installation.
OneEntryLatestPort ==
    \A port \in Ports : Installed(port) =>
        \A c \in {"UserPromptSubmit", "PostToolUse"} :
            /\ Cardinality(BuiltIn(settingsFile.hooks, c)) = 1
            /\ \A i \in BuiltIn(settingsFile.hooks, c) :
                  settingsFile.hooks[c][i] =
                      claudePilotHooks(getUrl(port))[c][1]

\* installHooks has run for port 4001 and then for port 4002
OneEntryLatestPortWitness ==
    /\ Installed(4002)
    /\ prevHookAct = <<"install", 4001, "ok">>
    /\ BuiltIn(before.hooks, "UserPromptSubmit") # {}
    /\ BuiltIn(before.hooks, "PostToolUse") # {}

\* the entries of the array that installHooks would have kept: the array
\* mergeHooks returns for it when there is nothing to add
KeptByInstall(hooks, category) ==
    mergeHooks(ArrayOf(hooks, category), <<>>, "",
               IF category = "PostToolUse" THEN "TodoWrite" ELSE "")

\* C18 (uninstall inverts install): when uninstall has run on a document
\* with hooks, no entry with a command containing the marker is left in
\* UserPromptSubmit or PostToolUse, every entry installHooks would have kept
\* is still there, unchanged and in order, neither category is left as an
\* empty array, and when the step before was an installation the hook
\* arrays are those from before that installation.
UninstallInverts ==
    (hookAct[1] = "uninstall" /\ before.kind = "json" /\ before.hasHooks) =>
        /\ \A c \in {"UserPromptSubmit", "PostToolUse"} :
              /\ Others(settingsFile.hooks, c, HasHookPath) =
                     ArrayOf(settingsFile.hooks, c)
              /\ KeptByInstall(settingsFile.hooks, c) =
                     KeptByInstall(before.hooks, c)
              /\ c \in DOMAIN settingsFile.hooks =>
                     Len(settingsFile.hooks[c]) > 0
        /\ (prevHookAct[1] = "install" /\ prevHookAct[3] = "ok") =>
              settingsFile.hooks = before2.hooks

\* the array of the category holds an entry with a command containing the
\* marker '/hook/'
HoldsMarker(file, category) ==
    \E i \in DOMAIN ArrayOf(file.hooks, category) :
        SomeCommand(file.hooks[category][i], HasHookPath)

\* C19 (isInstalled): isInstalled() is true only if UserPromptSubmit holds
\* an entry with the marker and PostToolUse holds an entry with the marker;
\* it is true when installHooks has just returned and false when uninstall
\* has just run.
IsInstalledMeansBoth ==
    /\ isInstalled(settingsFile) =>
          /\ settingsFile.kind = "json"
          /\ HoldsMarker(settingsFile, "UserPromptSubmit")
          /\ HoldsMarker(settingsFile, "PostToolUse")
    /\ (\E port \in Ports : Installed(port)) => isInstalled(settingsFile)
    /\ hookAct[1] = "uninstall" => ~isInstalled(settingsFile)

\* uninstall has run right after an installation that had made isInstalled
\* true
IsInstalledMeansBothWitness ==
    /\ hookAct[1] = "uninstall"
    /\ prevHookAct[1] = "install"
    /\ prevHookAct[3] = "ok"
    /\ ~isInstalled(before2)
    /\ isInstalled(before)
    /\ ~isInstalled(settingsFile)

\* C20 (backup of an unparsable file): a step in which installHooks returns
\* on a settings file that does not parse leaves a backup holding the file's
\* bytes, shows one warning and writes a document; and no step changes a
\* settings file that does not parse unless a backup holds its bytes
\* afterwards.
BackupBeforeOverwrite ==
    [][settingsFile.kind = "corrupt" =>
          /\ (hookAct'[1] = "install" /\ hookAct'[3] = "ok"
                  /\ hookOps' = hookOps + 1) =>
                 /\ settingsFile \in backups'
                 /\ warnings' = warnings + 1
                 /\ settingsFile'.kind = "json"
          /\ settingsFile' # settingsFile => settingsFile \in backups']_vars

\* installHooks has just recreated a settings file that did not parse
BackupBeforeOverwriteWitness ==
    /\ \E port \in Ports : Installed(port)
    /\ before = CorruptFile
    /\ CorruptFile \in backups
    /\ warnings > 0
    /\ settingsFile.kind = "json"

(***************************************************************************)
(* Claims about HookServer's requests.                                     *)
(***************************************************************************)
\* a request the hook routes take a body from, and one whose body parses
ToHookPath(req) == req.method = "POST" /\ req.pathname \in HookPaths

WellFormed(req) == ~parseBodyRejects(req.body)

\* C21: every POST to /hook/session, /hook/todo or /hook/general whose body
\* is well-formed JSON, whatever value it is, is answered with status 200 and
\* the body {success: true, suppressOutput: true}
AlwaysSuccess ==
    \A i \in DOMAIN served :
        ToHookPath(served[i].req) /\ WellFormed(served[i].req)
            => served[i].response = Success

\* the requests answered whose method is neither POST nor OPTIONS, and the
\* POSTs answered whose pathname is no hook route
OtherMethod(req) == req.method \notin {"POST", "OPTIONS"}

OtherPath(req) == req.method = "POST" /\ req.pathname \notin HookPaths

\* C22 as stated: a request whose method is neither POST nor OPTIONS is
\* answered 405, a POST to any other pathname is answered 404 whatever its
\* body is, and neither emits an event
MethodThenPath ==
    \A i \in DOMAIN served :
        /\ OtherMethod(served[i].req)
              => served[i].response = MethodNotAllowed /\ served[i].events = <<>>
        /\ OtherPath(served[i].req)
              => served[i].response = NotFound /\ served[i].events = <<>>

\* C22 as the code has it: a request whose method is neither POST nor OPTIONS
\* is answered 405; a POST to any other pathname is answered 404 when its body
\* is well-formed JSON and 500 when it is malformed; neither emits an event
MethodThenBodyThenPath ==
    \A i \in DOMAIN served :
        /\ OtherMethod(served[i].req)
              => served[i].response = MethodNotAllowed /\ served[i].events = <<>>
        /\ OtherPath(served[i].req)
              => /\ served[i].response =
                       IF WellFormed(served[i].req) THEN NotFound
                       ELSE InternalServerError
                 /\ served[i].events = <<>>

\* a malformed POST to an unrouted pathname, a well-formed one and a GET to a
\* hook route have all been answered
MethodThenBodyThenPathWitness ==
    /\ \E i \in DOMAIN served :
          OtherPath(served[i].req) /\ ~WellFormed(served[i].req)
    /\ \E i \in DOMAIN served :
          \/ OtherPath(served[i].req) /\ WellFormed(served[i].req)
          \/ OtherMethod(served[i].req) /\ served[i].req.pathname \in HookPaths

\* C23: a POST with a malformed body is answered 500 and emits no event, and
\* every well-formed request to a hook route answered after it is answered
\* with success
MalformedIsHarmless ==
    \A i \in DOMAIN served :
        served[i].req.method = "POST" /\ ~WellFormed(served[i].req)
            => /\ served[i].response = InternalServerError
               /\ served[i].events = <<>>
               /\ \A j \in (i + 1)..Len(served) :
                     ToHookPath(served[j].req) /\ WellFormed(served[j].req)
                         => served[j].response = Success

\* the name of the event the routes are to emit for a well-formed request
TypedEventName(req) ==
    IF req.pathname = "/hook/session" THEN "sessionUpdate"
    ELSE IF /\ req.pathname = "/hook/todo"
            /\ Get(BodyJson[req.body], "tool_name") = JStr(TodoWriteName)
    THEN "todoUpdate"
    ELSE "hook"

\* C24: each well-formed request to a hook route emits exactly one event:
\* sessionUpdate on the session route, todoUpdate on the todo route when the
\* tool name is TodoWrite, and the generic hook event in every other case
OneTypedEvent ==
    \A i \in DOMAIN served :
        ToHookPath(served[i].req) /\ WellFormed(served[i].req)
            => /\ Len(served[i].events) = 1
               /\ served[i].events[1].name = TypedEventName(served[i].req)

StopIsIdempotent ==
    /\ [][(srvAct'[1] \in {"stop", "closing"} /\ srvOps' = srvOps + 1
           /\ (server = 0 \/ ~isRunning))
             => /\ srvAct' = <<"stop", 0>>
                /\ UNCHANGED <<listenerState, inflight>>]_vars
    /\ [](srvAct[1] = "closed" => ~isRunning /\ serverPort = 0 /\ getUrlThrows)

\* a second stop() has returned after the first one's close callback
StopIsIdempotentWitness ==
    /\ srvAct = <<"stop", 0>>
    /\ srvOps = 3
    /\ server # 0
    /\ httpServers[server].state = "closed"
    /\ ~isRunning
    /\ serverPort = 0

(***************************************************************************)
(* Claims about SessionManager.                                            *)
(***************************************************************************)
\* C27: the history never holds more than MAX_HISTORY_SIZE entries; after a
\* saveSession call it is the new entry followed by the entries it held, the
\* oldest dropped when there is no room for all, and getLastSessionId()
\* returns the id that was saved
BoundedHistory ==
    /\ Len(sessionState.sessionHistory) <= MAX_HISTORY_SIZE
    /\ storeAct[1] = "saveSession"
          => LET old == storeBefore.sessionHistory
                 new == sessionState.sessionHistory
                 kept == IF Len(old) < MAX_HISTORY_SIZE THEN Len(old)
                         ELSE MAX_HISTORY_SIZE - 1
             IN  /\ Len(new) = kept + 1
                 /\ new[1].id = storeAct[2]
                 /\ \A i \in 1..kept : new[i + 1] = old[i]
                 /\ getLastSessionId(sessionState) = storeAct[2]

\* a session has been saved into a full history and the oldest entry is gone
BoundedHistoryWitness ==
    /\ storeAct[1] = "saveSession"
    /\ Len(storeBefore.sessionHistory) = MAX_HISTORY_SIZE
    /\ Len(sessionState.sessionHistory) = MAX_HISTORY_SIZE
    /\ storeBefore.sessionHistory[MAX_HISTORY_SIZE]
           # sessionState.sessionHistory[MAX_HISTORY_SIZE]
    /\ storeOps >= 2

\* an entry is older than days days at the time clock
OlderThan(entry, days, clock) == clock - entry.timestamp > days * DayMs

\* C28: pruneOldSessions(d) removes exactly the entries older than d days and
\* keeps the others in order; the pointer is unchanged when an entry it names
\* survives, and otherwise names the most recent surviving entry, or nothing
\* when no entry survives
PruneExactly ==
    storeAct[1] = "pruneOldSessions"
        => LET old == storeBefore.sessionHistory
               survivors ==
                   SelectSeq(old, LAMBDA entry :
                                     ~OlderThan(entry, storeAct[3], storeAct[4]))
               named == {i \in DOMAIN old : old[i].id = storeBefore.lastSessionId}
               removed == named # {}
                          /\ \A i \in named :
                                OlderThan(old[i], storeAct[3], storeAct[4])
           IN  /\ sessionState.sessionHistory = survivors
               /\ sessionState.lastSessionId =
                      IF ~removed THEN storeBefore.lastSessionId
                      ELSE IF survivors # <<>> THEN survivors[1].id
                      ELSE NoSession

(***************************************************************************)
(* Claims about the watcher's events.                                      *)
(***************************************************************************)
\* C29: every event the TodoWatcher emits carries the session id that is
\* active in the watcher when it is emitted, also when the stat request or
\* the watch behind it was registered before a later startWatching call
EventsOfActiveSession ==
    \A i \in DOMAIN todoChanged : todoChanged[i].sessionId = watcherSessionId

\* a stat request issued by the watch of one session has called back after
\* startWatching for another, and its event names the later session
EventsOfActiveSessionWitness ==
    /\ act[1] = "StatCallback"
    /\ todoChanged # <<>>
    /\ todoChanged[1].filePath = act[2]
    /\ watcherSessionId = "b2"
    /\ earlier = {"a1"}
    /\ ~IsSessionFile[act[2], watcherSessionId]
    /\ todoChanged[1].sessionId = "b2"

(***************************************************************************)
(* Claims about TodoParser.                                                *)
(***************************************************************************)
\* the shapes validateAndTransform reads todos from: a list, an object with
\* a list under todos or items, an object with a content, description or
\* text field
AcceptedShape(data) ==
    \/ data.t = "arr"
    \/ /\ data.t = "obj"
       /\ \/ \E f \in {"todos", "items"} :
                f \in DOMAIN data.v /\ data.v[f].t = "arr"
          \/ \E f \in {"content", "description", "text"} : f \in DOMAIN data.v

\* C30: a file whose text is well-formed JSON of none of the accepted shapes
\* (null, a number, a string, an object with no list and no content field)
\* parses with success to a TodoList without todos
UnknownShapeIsEmpty ==
    parseCalls > 0 /\ parsedFile.kind = "json" /\ ~AcceptedShape(parsedFile.data)
        => /\ parseResult.success
           /\ parseResult.data.todos = <<>>

\* C40: after any sequence of saveSession, pruneOldSessions and clearHistory
\* calls, lastSessionId is null or the id of an entry of sessionHistory
PointerIsInHistory ==
    \/ sessionState.lastSessionId = NoSession
    \/ \E i \in DOMAIN sessionState.sessionHistory :
          sessionState.sessionHistory[i].id = sessionState.lastSessionId

\* pruneOldSessions has removed every entry of the id the pointer named, after
\* a saveSession
PointerIsInHistoryWitness ==
    /\ storeAct[1] = "pruneOldSessions"
    /\ storeOps >= 2
    /\ storeBefore.lastSessionId # NoSession
    /\ storeBefore.sessionHistory # <<>>
    /\ sessionState.sessionHistory = <<>>
    /\ sessionState.lastSessionId = NoSession

\* C39: under every interleaving of start() and stop() with their listen and
\* close callbacks, at most one http server is listening, and isRunning is
\* true exactly when a server is listening on the port of the port field
OneListener ==
    /\ Cardinality(Listening) <= 1
    /\ isRunning <=> \E i \in Listening : httpServers[i].port = serverPort

\* the three documents of the tolerance example: {todos:[{content:"x"}]},
\* {items:[{text:"x"}]} and ["x"]
ToleratedDocuments ==
    {JObj([todos |-> JArr(<<JObj([content |-> JStr(<<"x">>)])>>)]),
     JObj([items |-> JArr(<<JObj([text |-> JStr(<<"x">>)])>>)]),
     JArr(<<JStr(<<"x">>)>>)}

\* C31: an object with a list field of one item whose content is x, an object
\* with an items field of one item whose text is x, and a bare list holding
\* the string x all parse to the same TodoList of exactly one item with
\* content x, status pending and priority medium
ParserTolerance ==
    parseCalls > 0 /\ parsedFile.kind = "json"
                   /\ parsedFile.data \in ToleratedDocuments
        => /\ parseResult.success
           /\ parseResult.data.todos =
                 <<[id |-> StringOfNat(0), content |-> JStr(<<"x">>),
                    status |-> "pending", priority |-> "medium"]>>

ParserToleranceWitness ==
    /\ parseCalls > 0
    /\ parsedFile.kind = "json"
    /\ parsedFile.data = JObj([items |-> JArr(<<JObj([text |-> JStr(<<"x">>)])>>)])
    /\ parseResult.success
    /\ Len(parseResult.data.todos) = 1

\* the todos of a cache that are not completed and have the priority
OpenWithPriority(cache, priority) ==
    LET all == Todos(cache, DirOrder)
    IN  Cardinality({i \in DOMAIN all : /\ all[i].priority = priority
                                        /\ all[i].status # "completed"})

\* C33: the priority counts of getTodoStats() count only the todos whose status
\* is not completed, in every state of the cache
PriorityCountsOpenOnly ==
    LET stats == getTodoStats(todoCache)
    IN  /\ stats.highPriority = OpenWithPriority(todoCache, "high")
        /\ stats.mediumPriority = OpenWithPriority(todoCache, "medium")
        /\ stats.lowPriority = OpenWithPriority(todoCache, "low")

\* the places of a priority and of a content in the order of the claim
PriorityRank(priority) ==
    CASE priority = "high" -> 1 [] priority = "medium" -> 2
      [] priority = "low" -> 3

ContentRank(content) ==
    CHOOSE i \in DOMAIN ExportContents : ExportContents[i] = content

\* todo a goes before todo b: by priority high, medium, low, then lexically
\* by content
Precedes(a, b) ==
    \/ PriorityRank(a.priority) < PriorityRank(b.priority)
    \/ /\ PriorityRank(a.priority) = PriorityRank(b.priority)
       /\ ContentRank(a.content) < ContentRank(b.content)

\* the todos of one status are in the order of the claim
Ordered(todos) ==
    \A i, j \in DOMAIN todos :
        i < j /\ todos[i].status = todos[j].status
            => ~Precedes(todos[j], todos[i])

\* the todos of one status are next to each other
Grouped(todos) ==
    \A i, j, k \in DOMAIN todos :
        i < j /\ j < k /\ todos[i].status = todos[k].status
            => todos[j].status = todos[i].status

\* the orders in which the todos of a list can be listed
Arrangements(todos) ==
    {[i \in DOMAIN todos |-> todos[f[i]]] :
        f \in {g \in [DOMAIN todos -> DOMAIN todos] :
                  \A i, j \in DOMAIN todos : g[i] = g[j] => i = j}}

\* the cache, the todos of each list arranged in an order that is Ok
Arranged(Ok(_)) ==
    {[k \in DOMAIN exportCache |-> [exportCache[k] EXCEPT !.todos = c[k]]] :
        c \in {d \in [DOMAIN exportCache ->
                        UNION {Arrangements(exportCache[k].todos) :
                                  k \in DOMAIN exportCache}] :
                  \A k \in DOMAIN exportCache :
                      /\ d[k] \in Arrangements(exportCache[k].todos)
                      /\ Ok(d[k])}}

\* C32, as stated: both exports list the todos grouped by status and, inside
\* a status group, by priority high, medium, low, then lexically by content
ExportsAreSorted ==
    /\ markdown # <<>>
          => \E cache \in Arranged(Ordered) : markdown = exportAsMarkdown(cache)
    /\ plainText # <<>>
          => \E cache \in Arranged(LAMBDA todos : Ordered(todos) /\ Grouped(todos)) :
                plainText = exportAsPlainText(cache)

\* the lines of an export that list a todo
ItemLines(lines, starts) == SelectSeq(lines, LAMBDA line : line.text \in starts)

RECURSIVE Concat(_)
Concat(seqs) ==
    IF seqs = <<>> THEN <<>> ELSE Head(seqs) \o Concat(Tail(seqs))

\* the item lines of the lists of a cache, one list after the other, the
\* todos of each list in the given order
Listed(cache, Order(_), ItemLine(_)) ==
    Concat([k \in DOMAIN cache |->
               [i \in DOMAIN cache[k].todos |->
                   ItemLine(Order(cache[k].todos)[i])]])

\* the todos of a list by status, pending, in progress, completed, each
\* status in the order of the list
StatusThenList(todos) ==
    SelectSeq(todos, LAMBDA todo : todo.status = "pending")
    \o SelectSeq(todos, LAMBDA todo : todo.status = "in_progress")
    \o SelectSeq(todos, LAMBDA todo : todo.status = "completed")

MarkdownItemLine(todo) ==
    Line(CASE todo.status = "pending" -> "- [ ] "
           [] todo.status = "in_progress" -> "- [~] "
           [] todo.status = "completed" -> "- [x] ",
         todo.content.v,
         IF todo.priority = "high" /\ todo.status # "completed"
         THEN HighPriorityMark ELSE "")

\* C32, amended: the exports list the cached todos list by list;
\* exportAsMarkdown groups the todos of a list by status (pending, in
\* progress, completed) and keeps the order of the list inside each group;
\* exportAsPlainText lists the todos of a list in the order of the list, each
\* with its status and its priority
ExportsKeepListOrder ==
    /\ markdown # <<>>
          => ItemLines(markdown, {"- [ ] ", "- [~] ", "- [x] "})
                = Listed(exportCache, StatusThenList, MarkdownItemLine)
    /\ plainText # <<>>
          => ItemLines(plainText,
                       {"[" \o StatusLabel(s) \o "] [" \o PriorityLabel(p) \o "] " :
                           s \in StatusValues, p \in PriorityValues})
                = Listed(exportCache, LAMBDA todos : todos, PlainTextLine)

\* both exports of a cache whose only list holds a pending todo of low
\* priority, a completed todo and a pending todo of high priority, in this
\* order
ExportsKeepListOrderWitness ==
    /\ exportCalls = 2
    /\ markdown # <<>> /\ plainText # <<>>
    /\ Len(exportCache) = 1
    /\ Len(exportCache[1].todos) = 3
    /\ exportCache[1].todos[1].status = "pending"
    /\ exportCache[1].todos[2].status = "completed"
    /\ exportCache[1].todos[3].status = "pending"
    /\ exportCache[1].todos[1].priority = "low"
    /\ exportCache[1].todos[3].priority = "high"

StoppedWatcherIsQuiet ==
    fileWatcher = NoSession => watchedFiles = {} /\ todoChanged = <<>>

\* the watcher has emitted a deleted event for the path in this step
WatcherDeleted(filePath) ==
    \E i \in DOMAIN todoChanged' :
        todoChanged'[i].type = "deleted" /\ todoChanged'[i].filePath = filePath

\* C36: a deleted watcher event for a path makes TodoManager emit a deleted
\* ChangeEvent exactly when the path has a cache entry, with the sessionId and
\* the payload of the entry it removes; when the path has no entry nothing is
\* emitted and the cache and the debounce timers are left as they were
DeletedIffCached ==
    [][\A filePath \in Paths : WatcherDeleted(filePath) =>
          IF filePath \in DOMAIN todoCache
          THEN /\ emitted' = <<ChangeEvent("deleted",
                                           todoCache[filePath].sessionId,
                                           <<todoCache[filePath]>>, FALSE)>>
               /\ DOMAIN todoCache' = DOMAIN todoCache \ {filePath}
               /\ \A q \in DOMAIN todoCache' : todoCache'[q] = todoCache[q]
          ELSE /\ emitted' = <<>>
               /\ UNCHANGED <<todoCache, parseDebounceTimers,
                              pendingTimeouts>>]_vars

\* the deletion of a cached file has been reported
DeletedIffCachedWitness ==
    /\ act[1] = "StatCallback"
    /\ todoChanged # <<>> /\ todoChanged[1].type = "deleted"
    /\ emitted # <<>> /\ emitted[1].type = "deleted"
    /\ emitted[1].todoList # <<>>
    /\ act[2] \notin DOMAIN todoCache

\* what the harness did, in order: the entries of the log after the first
\* that are not events
HarnessOps == SelectSeq(Tail(trace), LAMBDA e : e.op # "emit")

\* parse r of path p is about to finish as the second of two parses of p that
\* were in flight together, one started by the re-scan of a todoUpdate and
\* one by a debounce timer, which read different contents of the file, the
\* file holding one of the two: the harness has delivered one todoUpdate for
\* the session tracked from the start, let one timer of p fire and started
\* no session, and the step before this one finished the other parse
Raced(r) ==
    LET p == r.filePath
    IN  /\ trace # <<>>
        /\ \A i \in DOMAIN HarnessOps :
              HarnessOps[i].op \in {"TodoNotification", "TimerFire", "WriteFile"}
        /\ Len(SelectSeq(HarnessOps, LAMBDA e :
                  e = Entry("TodoNotification", currentSessionId))) = 1
        /\ Len(SelectSeq(HarnessOps, LAMBDA e : e.op = "TodoNotification")) = 1
        /\ Len(SelectSeq(HarnessOps, LAMBDA e : e = Entry("TimerFire", p))) = 1
        /\ act = <<"ParseFinish", p>>
        /\ Len(emitted) >= 1 /\ ~emitted[1].error
        /\ ~parseFails(r.content, p, disk)
        /\ emitted[1].todoList # <<TodoListOf[r.content, p]>>
        /\ ~parseFails(disk[p], p, disk)
        /\ \/ r.content = disk[p]
           \/ emitted[1].todoList = <<TodoListOf[disk[p], p]>>
        /\ \A q \in parses \ {r} : q.filePath # p

\* C37: when a re-scan parse started by a todoUpdate and a parse started by a
\* debounce timer for the same path are in flight together and the file is
\* written between their reads, the cache entry left once both have finished
\* holds the latest content of the file, whichever finishes last
LatestContentWins ==
    [][\A r \in parses : ParseFinish(r) /\ Raced(r) =>
          /\ r.filePath \in DOMAIN todoCache'
          /\ todoCache'[r.filePath] = TodoListOf[disk[r.filePath], r.filePath]]_vars

\* entry i of the log is a ChangeEvent with a payload for the path
PayloadEvent(i, filePath, kinds) ==
    /\ trace[i].op = "emit"
    /\ trace[i].arg.type \in kinds
    /\ trace[i].arg.todoList # <<>>
    /\ trace[i].arg.todoList[1].filePath = filePath

\* the harness started or stopped a session, or delivered a sessionUpdate
SessionBoundary(i) ==
    trace[i].op \in {"StartSession", "StopSession", "SessionUpdate"}

\* C38, first half: within one tracking session, across refresh() too, no
\* two created events are received for a path without a deleted event for it
\* in between
CreatedOncePerLife ==
    \A filePath \in Paths : \A i, j \in DOMAIN trace :
        /\ i < j
        /\ PayloadEvent(i, filePath, {"created"})
        /\ PayloadEvent(j, filePath, {"created"})
        /\ \A k \in (i + 1)..(j - 1) : ~SessionBoundary(k)
        => \E k \in (i + 1)..(j - 1) : PayloadEvent(k, filePath, {"deleted"})

\* C38, second half: an updated or deleted event with a payload is emitted
\* only for a path that has a cache entry
ChangesOfCached ==
    [][\A i \in DOMAIN emitted' :
          emitted'[i].type \in {"updated", "deleted"} /\ emitted'[i].todoList # <<>>
              => \E filePath \in DOMAIN todoCache :
                    filePath = emitted'[i].todoList[1].filePath]_vars

\* C38: within one tracking session, including across refresh(), the
\* ChangeEvents with a payload for one path come in the order created, any
\* number of updated, deleted, created again: no updated or deleted for a
\* path without a cache entry, no two created without a deleted in between
EventOrder == []CreatedOncePerLife /\ ChangesOfCached
====
